---- MODULE Spec2Model ----
(***************************************************************************)
(* GenHat backend: project knowledge cache (content store, embedding        *)
(* store, incremental merge, session cache) and the prompt cache.           *)
(*                                                                          *)
(* The specifications of this module:                                       *)
(*   Spec          the ingestion side of Backend/app.py on one project      *)
(*                 (cache_pdfs, append_pdf, remove_pdf and the background   *)
(*                 unit process_pdfs_background);                           *)
(*   CacheSpec     Backend/prompt_cache.py and the two generation flows of  *)
(*                 app.py that use it;                                      *)
(*   RestartSpec   the ingestion and import_project_cache over a project    *)
(*                 directory left by an earlier process;                    *)
(*   FaultSpec     cache_pdfs and its background unit with a failing        *)
(*                 extractor and failing writes;                            *)
(*   SaveSpec      save_project_state against loads, file by file;          *)
(*   ProgressSpec  the background unit's writes to its session entry        *)
(*                 against get_cache_status, statement by statement;        *)
(*   ThreadSpec    PromptCache.set and get on worker threads, statement by  *)
(*                 statement;                                               *)
(*   ScanSpec      PromptCache.get over several stored responses, with the  *)
(*                 blended scores of its similarity scan;                   *)
(*   ChunkSpec     extract/content_chunker.py: the sliding window, turn by  *)
(*                 turn, and extract_chunks_with_headings;                  *)
(*   AgeSpec       PromptCache.set and remove_old_entries over days;        *)
(*   BundleSpec    export_project_cache and import_project_cache around     *)
(*                 the ingestion;                                           *)
(*   QuerySpec     query_pdfs against cache_pdfs and its background unit;   *)
(*   NameSpec      the project directory of a client-supplied name.         *)
(* Python dicts are records whose DOMAIN is the set of keys present, so     *)
(* `k in d` is  k \in DOMAIN d  and  d.get(k)  is Get(d, k).                *)
(***************************************************************************)
EXTENDS Naturals, Integers, Sequences, FiniteSets, TLC

VARIABLES
    meta,        \* meta.json of the project: NONE (no file) or [files |-> <<..>>, ...]
    chunks,      \* chunks.json of the project: sequence of chunk records
    emb,         \* embeddings.npz: NONE or [chunk_ids, embeddings, model]
    available,   \* whether the sentence-transformer encoder can be loaded
    pdf_cache,   \* the global session map: cache_key -> entry (a dict)
    bg,          \* cache_key -> locals of that key's background unit (in SaveSpec
                 \* and ThreadSpec: worker thread -> its locals)
    nreq,        \* number of requests accepted so far (cache keys are 1..nreq)
    removed,     \* history: file names a successful remove_pdf was asked to remove
    last,        \* history: the step just taken, with the values it read
    cache_data,           \* PromptCache.cache_data, in insertion order
    cache_file,           \* prompt_cache.json: the blocks written to it
    similarity_threshold, \* PromptCache.similarity_threshold
    embedding_model,      \* PromptCache.embedding_model is not None
    stored,               \* history: prompt -> response of its latest set, until cleared
    ncalls,               \* number of prompt-cache operations and flows so far
    ret                   \* history: what the last prompt-cache operation did

ingestVars == <<meta, chunks, emb, available, pdf_cache, bg, nreq, removed, last>>
cacheVars ==
    <<cache_data, cache_file, similarity_threshold, embedding_model, stored, ncalls, ret>>
vars == <<meta, chunks, emb, available, pdf_cache, bg, nreq, removed, last,
          cache_data, cache_file, similarity_threshold, embedding_model, stored, ncalls,
          ret>>

\* An optional value is a sequence of at most one element: None is the empty
\* one, and The(o) is the value of a present one.
NONE == <<>>
Some(x) == <<x>>
The(o) == o[1]

\* Bound: how many requests (cache_pdfs, append_pdf, remove_pdf) are accepted.
MaxRequests == 2

\* ------------------------------------------------------------------------
\* Generic helpers
\* ------------------------------------------------------------------------

\* d.get(k): the value, or None when the key is absent.
Get(d, k) == IF k \in DOMAIN d THEN Some(d[k]) ELSE NONE

\* d[k] = v on a dict: replaces the key's value or adds the key.
Put(d, k, v) == (k :> v) @@ d

Range(s) == {s[i] : i \in DOMAIN s}

\* [f(x) for x in s]
RECURSIVE Concat(_)
Concat(ss) == IF ss = <<>> THEN <<>> ELSE Head(ss) \o Concat(Tail(ss))

\* ------------------------------------------------------------------------
\* Uploaded files, hashing and chunk extraction
\* ------------------------------------------------------------------------

\* File names a client uploads, and the distinct byte contents.
Names == {"a.pdf", "b.pdf"}
Contents == {"x", "xy", "blank"}
File(name, content) == [name |-> name, content |-> content]
\* The uploads tried: the same bytes under two names, one name with two
\* different contents, and a file without text.
Uploads == {File("a.pdf", "x"), File("a.pdf", "xy"), File("b.pdf", "x"), File("b.pdf", "blank")}

\* sha256 of the bytes: distinct contents have distinct digests.
hash_bytes(content) == <<"sha256", content>>

\* The text sections the parser and chunker find in a document: "x" has one,
\* "xy" has the same first section and a second one, "blank" has no text.
SectionsOf(content) ==
    CASE content = "x" -> <<"sec1">>
      [] content = "xy" -> <<"sec1", "sec2">>
      [] OTHER -> <<>>

\* The id is a digest of (pdf_name, heading, page_number, snippet[:200]); the
\* section stands for heading, page and snippet together.
_make_chunk_id(pdf_name, section) == <<"id", pdf_name, section>>

\* One chunk per section, in document order; pdf_name is the path's last part.
extract_chunks_with_headings(pdf_name, content) ==
    [i \in 1..Len(SectionsOf(content)) |->
        [pdf_name |-> pdf_name,
         content |-> SectionsOf(content)[i],
         chunk_id |-> _make_chunk_id(pdf_name, SectionsOf(content)[i])]]

\* process_single_pdf reads the file at the path: what was written there last.
process_single_pdf(pdf_name, temp) == extract_chunks_with_headings(pdf_name, temp[pdf_name])

\* ------------------------------------------------------------------------
\* Embedding provider, retriever and embedding store
\* ------------------------------------------------------------------------

DefaultModel == "all-MiniLM-L12-v2"

\* The encoder is deterministic: one vector per chunk text and model.
Encode(cs, model) == [i \in 1..Len(cs) |-> <<"vec", model, cs[i].content>>]

\* [c.get('chunk_id') for c in cs if c.get('chunk_id')]
RECURSIVE ChunkIds(_)
ChunkIds(cs) ==
    IF cs = <<>> THEN <<>>
    ELSE Get(Head(cs), "chunk_id") \o ChunkIds(Tail(cs))

\* id_map = {c.get('chunk_id'): c for c in cs if c.get('chunk_id')}: for an id
\* that occurs twice the later chunk wins.
IdMapHas(cs, cid) == \E i \in DOMAIN cs : Get(cs[i], "chunk_id") = Some(cid)
IdMapGet(cs, cid) ==
    LET hits == {i \in DOMAIN cs : Get(cs[i], "chunk_id") = Some(cid)}
        top == CHOOSE i \in hits : \A j \in hits : j <= i
    IN cs[top]

\* [id_map[cid] for cid in ids if cid in id_map]
RECURSIVE Reorder(_, _)
Reorder(ids, cs) ==
    IF ids = <<>> THEN <<>>
    ELSE (IF IdMapHas(cs, Head(ids)) THEN <<IdMapGet(cs, Head(ids))>> ELSE <<>>)
         \o Reorder(Tail(ids), cs)

\* build_hybrid_index raises on an empty chunk list.
BuildRaises(cs) == cs = <<>>

\* build_hybrid_index(chunks, domain, embedding_model, precomputed_embeddings):
\* the retriever keeps the vectors it was given, or encodes the chunks itself
\* when the encoder is available, or has none (lexical scoring only).
build_hybrid_index(cs, model, precomputed, avail) ==
    [n_chunks |-> Len(cs),
     embedding_model_name |-> model,
     chunk_embeddings |->
        IF precomputed /= NONE THEN precomputed
        ELSE IF avail THEN Some(Encode(cs, model))
        ELSE NONE]

\* save_embeddings: the three arrays are written as one file.
save_embeddings(chunk_ids, embeddings, model_name) ==
    [chunk_ids |-> chunk_ids, embeddings |-> embeddings, model |-> model_name]

\* A file on disk whose content does not parse (or cannot be read).
Corrupt == [corrupt |-> TRUE]
IsCorrupt(v) == "corrupt" \in DOMAIN v

\* load_embeddings: None when the file is missing or invalid.
load_embeddings(e) == IF e = NONE \/ IsCorrupt(The(e)) THEN NONE ELSE e

\* number of rows of the persisted array (0 when there is no file)
Rows(e) == IF e = NONE THEN 0 ELSE Len(The(e).embeddings)

\* ------------------------------------------------------------------------
\* Content store
\* ------------------------------------------------------------------------

\* load_project_meta: None when meta.json is missing or does not parse.
load_project_meta(m) == IF m = NONE \/ IsCorrupt(The(m)) THEN NONE ELSE m

\* load_project_chunks: [] when chunks.json is missing or does not parse.
load_project_chunks(cs) == IF cs /= <<>> /\ IsCorrupt(cs[1]) THEN <<>> ELSE cs

\* load_project_meta(...) or {"project_name": safe_name, "files": []}
MetaOrDefault(m) == IF m = NONE THEN [files |-> <<>>] ELSE The(m)

\* {**meta, "files": files, "domain": domain}, as save_project_state writes it
MetaWith(m, files, domain) == Put(Put(m, "files", files), "domain", domain)

\* meta.get("files", [])
FilesOf(m) == IF "files" \in DOMAIN m THEN m.files ELSE <<>>

FileNames(files) == [i \in 1..Len(files) |-> files[i].name]
FileHashes(files) == {files[i].hash : i \in DOMAIN files}

\* ------------------------------------------------------------------------
\* Initial state
\* ------------------------------------------------------------------------

NoStep == [op |-> "init"]

IngestInit ==
    /\ meta = NONE
    /\ chunks = <<>>
    /\ emb = NONE
    /\ available \in BOOLEAN
    /\ pdf_cache = <<>>
    /\ bg = <<>>
    /\ nreq = 0
    /\ removed = {}
    /\ last = NoStep

\* ------------------------------------------------------------------------
\* cache_pdfs                                     (app.py, lines 246-375)
\* ------------------------------------------------------------------------

Project == "proj"

\* A batch is one uploaded PDF or two: the same file twice, the same bytes under
\* two names, one name with two contents, a file with text and one without.
Batches ==
    {<<f>> : f \in Uploads}
    \cup {<<File("a.pdf", "x"), File("a.pdf", "x")>>,
          <<File("a.pdf", "x"), File("b.pdf", "x")>>,
          <<File("a.pdf", "x"), File("a.pdf", "xy")>>,
          <<File("a.pdf", "xy"), File("b.pdf", "blank")>>}

\* A collection that takes every uploaded file.
CollectAll(files, existing_hashes) == files

\* "Collect truly new PDFs": a file is skipped when its hash is in the stored
\* file list; existing_hashes is read once, before the loop.
RECURSIVE CollectNew(_, _)
CollectNew(files, existing_hashes) ==
    IF files = <<>> THEN <<>>
    ELSE (IF hash_bytes(Head(files).content) \in existing_hashes
          THEN <<>> ELSE <<Head(files)>>)
         \o CollectNew(Tail(files), existing_hashes)

\* Each new file is written to temp_dir / filename: a later file of the same
\* name overwrites the earlier one.
TempDir(new_files) ==
    [n \in {new_files[i].name : i \in DOMAIN new_files} |->
        LET hits == {i \in DOMAIN new_files : new_files[i].name = n}
            top == CHOOSE i \in hits : \A j \in hits : j <= i
        IN new_files[top].content]

NewFilesMeta(new_files) ==
    [i \in 1..Len(new_files) |->
        [name |-> new_files[i].name, hash |-> hash_bytes(new_files[i].content)]]

NoBg == [pc |-> "none"]

\* The locals of process_pdfs_background as run_bg passes them.
QueuedBg(new_files, new_files_meta, existing_chunks, existing_meta) ==
    [pc |-> "queued",
     pdf_files |-> FileNames(new_files_meta),
     temp |-> TempDir(new_files),
     existing_chunks |-> existing_chunks,
     existing_meta |-> existing_meta,
     new_files_meta |-> new_files_meta,
     new_chunks |-> <<>>,
     file_progress |-> <<>>,
     merged_files_meta |-> <<>>,
     all_chunks_ordered |-> <<>>,
     retriever |-> NONE,
     incremental_used |-> FALSE,
     empty |-> FALSE]

\* A reuse that leaves the entry of line 292 in place.
ReuseEntryPending(existing_chunks, existing_files, loaded, avail) ==
    [processing |-> TRUE, project_name |-> Project, chunks |-> existing_chunks,
     pdf_files |-> FileNames(existing_files)]

\* Case 1 of cache_pdfs: the retriever for stored chunks, reusing the stored
\* vectors when their count matches; the entry, or the error entry when the
\* build raises.
ReuseEntry(existing_chunks, existing_files, loaded, avail) ==
    LET ordered == IF loaded = NONE THEN <<>>
                   ELSE Reorder(The(loaded).chunk_ids, existing_chunks)
        reuse == loaded /= NONE /\ Len(ordered) = Rows(loaded)
        cs == IF reuse THEN ordered ELSE existing_chunks
        retriever == IF reuse
                     THEN build_hybrid_index(ordered, The(loaded).model,
                                             Some(The(loaded).embeddings), avail)
                     ELSE build_hybrid_index(existing_chunks, DefaultModel, NONE, avail)
    IN IF BuildRaises(cs)
       THEN [error |-> "Index build failed", chunks |-> existing_chunks,
             project_name |-> Project]
       ELSE [retriever |-> Some(retriever), chunks |-> cs, domain |-> "general",
             pdf_files |-> FileNames(existing_files), project_name |-> Project,
             reused |-> TRUE]

ProcessingEntry(existing_chunks, existing_files) ==
    [processing |-> TRUE, project_name |-> Project, chunks |-> existing_chunks,
     pdf_files |-> FileNames(existing_files), task |-> TRUE]

\* pdf_cache[cache_key] = entry on the session map.
Assign(cache, cache_key, entry) ==
    IF cache_key \in DOMAIN cache THEN [cache EXCEPT ![cache_key] = entry]
    ELSE Append(cache, entry)

\* A key that is the same for every request of the project.
ProjectKey(n) == 1

\* Line 291: cache_key = str(uuid.uuid4()), a key no request had before; the
\* keys handed out so far are 1..n.
uuid4(n) == n + 1

cache_pdfs(files) ==
    LET existing_meta == MetaOrDefault(load_project_meta(meta))
        existing_files == FilesOf(existing_meta)
        existing_hashes == FileHashes(existing_files)
        existing_chunks == load_project_chunks(chunks)
        new_files == CollectNew(files, existing_hashes)
        new_files_meta == NewFilesMeta(new_files)
        cache_key == uuid4(nreq)
        case == IF new_files = <<>> /\ existing_chunks /= <<>> THEN "reuse"
                ELSE IF new_files = <<>> THEN "empty"
                ELSE "background"
        entry == CASE case = "reuse" ->
                        ReuseEntry(existing_chunks, existing_files,
                                   load_embeddings(emb), available)
                   [] case = "empty" ->
                        [empty |-> TRUE, project_name |-> Project,
                         chunks |-> <<>>, pdf_files |-> <<>>]
                   [] OTHER -> ProcessingEntry(existing_chunks, existing_files)
    IN /\ nreq < MaxRequests
       /\ nreq' = cache_key
       /\ pdf_cache' = Assign(pdf_cache, cache_key, entry)
       /\ bg' = Assign(bg, cache_key,
                       IF case = "background"
                       THEN QueuedBg(new_files, new_files_meta,
                                     existing_chunks, existing_meta)
                       ELSE NoBg)
       /\ last' = [op |-> "cache_pdfs", key |-> cache_key, case |-> case,
                   status |-> IF "error" \in DOMAIN entry THEN 500 ELSE 200,
                   files |-> files]
       /\ UNCHANGED <<meta, chunks, emb, available, removed>>

\* ------------------------------------------------------------------------
\* process_pdfs_background                        (app.py, lines 390-558)
\* ------------------------------------------------------------------------

\* Lines 398-452: every file is extracted and its chunks are collected in
\* submission order; process_single_pdf returns [] instead of raising, so
\* every file ends "completed".  file_progress is keyed by file name.
ExtractAll(pdf_files, temp) ==
    Concat([i \in 1..Len(pdf_files) |-> process_single_pdf(pdf_files[i], temp)])

BgExtract(k) ==
    LET b == bg[k]
        fp == [n \in Range(b.pdf_files) |-> "completed"]
    IN /\ b.pc = "queued"
       /\ bg' = [bg EXCEPT ![k] = [b EXCEPT !.pc = "extracted",
                                           !.new_chunks = ExtractAll(b.pdf_files, b.temp),
                                           !.file_progress = fp]]
       /\ pdf_cache' = [pdf_cache EXCEPT ![k] =
                            Put(Put(@, "file_progress", fp), "processing", TRUE)]
       /\ last' = [op |-> "extract", key |-> k]
       /\ UNCHANGED <<meta, chunks, emb, available, nreq, removed>>

\* An incremental path that does not compare the matched chunks with the rows.
UseIncrementalUnchecked(existing, new_chunks, loaded, avail) ==
    /\ existing /= <<>>
    /\ new_chunks /= <<>>
    /\ loaded /= NONE
    /\ avail

\* Lines 477-487: the incremental path is taken when there are existing and
\* new chunks, a stored record loads, the existing chunks matched to its ids
\* are as many as its rows, and the encoder is available.
UseIncremental(existing, new_chunks, loaded, avail) ==
    /\ existing /= <<>>
    /\ new_chunks /= <<>>
    /\ loaded /= NONE
    /\ Len(Reorder(The(loaded).chunk_ids, existing)) = Rows(loaded)
    /\ avail

\* A merge that puts the fresh vectors first.
MergedEmbsNewFirst(loaded_embs, new_embs) == new_embs \o loaded_embs

\* Line 489: merged_embs = np.vstack([loaded_embs, new_embs])
MergedEmbs(loaded_embs, new_embs) == loaded_embs \o new_embs

\* Line 490: all_chunks_ordered = reordered_existing + new_chunks
MergedChunks(reordered_existing, new_chunks) == reordered_existing \o new_chunks

\* Lines 492-498 and 512-519: the record is written only when there is one id
\* per row; otherwise the stored record is left as it was.
PersistEmbeddings(old, cs, embeddings, model) ==
    IF embeddings /= NONE /\ Len(ChunkIds(cs)) = Len(The(embeddings))
    THEN Some(save_embeddings(ChunkIds(cs), The(embeddings), model))
    ELSE old

\* `saved` is whether the write of the record at line 496 / 516 succeeds; a
\* failure is caught at lines 499-500 / 518-519.
BgMergeWith(k, saved) ==
    LET b == bg[k]
        existing == b.existing_chunks
        new_chunks == b.new_chunks
        merged_files_meta == FilesOf(b.existing_meta) \o b.new_files_meta
        empty == new_chunks = <<>> /\ existing = <<>>
        loaded == load_embeddings(emb)
        incremental == UseIncremental(existing, new_chunks, loaded, available)
        new_embs == Encode(new_chunks, The(loaded).model)
        all == IF incremental
               THEN MergedChunks(Reorder(The(loaded).chunk_ids, existing), new_chunks)
               ELSE existing \o new_chunks
        retriever ==
            IF incremental
            THEN build_hybrid_index(all, The(loaded).model,
                    Some(MergedEmbs(The(loaded).embeddings, new_embs)), available)
            ELSE build_hybrid_index(all, DefaultModel, NONE, available)
        merged == [b EXCEPT !.pc = "merged",
                            !.merged_files_meta = merged_files_meta,
                            !.all_chunks_ordered = all,
                            !.retriever = Some(retriever),
                            !.incremental_used = incremental]
    IN /\ b.pc = "extracted"
       /\ saved \/ (~empty /\ retriever.chunk_embeddings /= NONE
                           /\ Len(ChunkIds(all)) = Len(The(retriever.chunk_embeddings)))
       /\ bg' = [bg EXCEPT ![k] =
                    IF empty
                    THEN [b EXCEPT !.pc = "merged", !.empty = TRUE,
                                   !.merged_files_meta = merged_files_meta]
                    ELSE IF saved THEN merged
                    ELSE Put(merged, "fault", "embedding_store")]
       /\ emb' = IF empty \/ ~saved THEN emb
                 ELSE PersistEmbeddings(emb, all, retriever.chunk_embeddings,
                                        retriever.embedding_model_name)
       /\ last' = [op |-> "merge", key |-> k,
                   path |-> IF empty THEN "empty"
                            ELSE IF incremental THEN "incremental" ELSE "full",
                   loaded |-> loaded, existing |-> existing, new_chunks |-> new_chunks,
                   encoded |-> IF empty \/ ~available THEN <<>>
                               ELSE IF incremental THEN new_chunks ELSE all]
       /\ UNCHANGED <<meta, chunks, pdf_cache, available, nreq, removed>>

BgMerge(k) == BgMergeWith(k, TRUE)

\* Lines 456 and 528: save_project_state(project, {**existing_meta, "files":
\* merged_files_meta, "domain": ...}, all_chunks_ordered)
BgPersist(k) ==
    LET b == bg[k]
    IN /\ b.pc = "merged"
       /\ meta' = Some(MetaWith(b.existing_meta, b.merged_files_meta, "general"))
       /\ chunks' = b.all_chunks_ordered
       /\ bg' = [bg EXCEPT ![k] = [b EXCEPT !.pc = "persisted"]]
       /\ last' = [op |-> "persist", key |-> k]
       /\ UNCHANGED <<emb, pdf_cache, available, nreq, removed>>

\* A final entry that never flags a missing retriever.
FinalEntryUnflagged(b) ==
    IF b.empty
    THEN [chunks |-> <<>>, domain |-> "general",
          pdf_files |-> FileNames(b.merged_files_meta), project_name |-> Project,
          empty |-> TRUE, file_progress |-> b.file_progress, processing |-> FALSE]
    ELSE [retriever |-> b.retriever, chunks |-> b.all_chunks_ordered,
          domain |-> "general", pdf_files |-> FileNames(b.merged_files_meta),
          project_name |-> Project, index_error |-> FALSE,
          file_progress |-> b.file_progress, processing |-> FALSE,
          incremental_embeddings |-> b.incremental_used]

\* Lines 457-465 and 530-540: the entry of the session is replaced.
FinalEntry(b) ==
    IF b.empty
    THEN [chunks |-> <<>>, domain |-> "general",
          pdf_files |-> FileNames(b.merged_files_meta), project_name |-> Project,
          empty |-> TRUE, file_progress |-> b.file_progress, processing |-> FALSE]
    ELSE [retriever |-> b.retriever, chunks |-> b.all_chunks_ordered,
          domain |-> "general", pdf_files |-> FileNames(b.merged_files_meta),
          project_name |-> Project, index_error |-> (b.retriever = NONE),
          file_progress |-> b.file_progress, processing |-> FALSE,
          incremental_embeddings |-> b.incremental_used]

\* A unit that publishes its entry before save_project_state has run.
BgPublishEarly(k) ==
    LET b == bg[k]
    IN /\ b.pc = "merged"
       /\ pdf_cache[k] /= FinalEntry(b)
       /\ pdf_cache' = [pdf_cache EXCEPT ![k] = FinalEntry(b)]
       /\ last' = [op |-> "publish", key |-> k]
       /\ UNCHANGED <<meta, chunks, emb, available, bg, nreq, removed>>

BgPublish(k) ==
    LET b == bg[k]
    IN /\ b.pc = "persisted"
       /\ pdf_cache' = [pdf_cache EXCEPT ![k] = FinalEntry(b)]
       /\ bg' = [bg EXCEPT ![k] = [b EXCEPT !.pc = "done"]]
       /\ last' = [op |-> "publish", key |-> k]
       /\ UNCHANGED <<meta, chunks, emb, available, nreq, removed>>

\* ------------------------------------------------------------------------
\* append_pdf                                     (app.py, lines 560-616)
\* ------------------------------------------------------------------------

\* Lines 581-593: the hash is already stored; a retriever is built over the
\* stored chunks (None when the build raises) and the session is ready.
AppendReuseEntry(m, existing_chunks, avail) ==
    [retriever |-> IF BuildRaises(existing_chunks) THEN NONE
                   ELSE Some(build_hybrid_index(existing_chunks, DefaultModel, NONE, avail)),
     chunks |-> existing_chunks,
     domain |-> IF "domain" \in DOMAIN m THEN m.domain ELSE "general",
     pdf_files |-> FileNames(FilesOf(m)),
     project_name |-> Project,
     reused |-> TRUE]

append_pdf(file) ==
    IF load_project_meta(meta) = NONE
    THEN /\ last' = [op |-> "append_pdf", status |-> 404]
         /\ UNCHANGED <<meta, chunks, emb, available, pdf_cache, bg, nreq, removed>>
    ELSE LET existing_chunks == load_project_chunks(chunks)
             m == The(load_project_meta(meta))
             existing_hashes == FileHashes(FilesOf(m))
             known == hash_bytes(file.content) \in existing_hashes
             cache_key == nreq + 1
             new_files_meta == NewFilesMeta(<<file>>)
         IN /\ nreq < MaxRequests
            /\ nreq' = cache_key
            /\ pdf_cache' = Append(pdf_cache,
                                IF known
                                THEN AppendReuseEntry(m, existing_chunks, available)
                                ELSE ProcessingEntry(existing_chunks, FilesOf(m)))
            /\ bg' = Append(bg, IF known THEN NoBg
                                ELSE QueuedBg(<<file>>, new_files_meta, existing_chunks, m))
            /\ last' = [op |-> "append_pdf", status |-> 200, key |-> cache_key,
                        case |-> IF known THEN "reuse" ELSE "background",
                        files |-> <<file>>]
            /\ UNCHANGED <<meta, chunks, emb, available, removed>>

\* ------------------------------------------------------------------------
\* remove_pdf                                     (app.py, lines 618-722)
\* ------------------------------------------------------------------------

\* Lines 636-641: the file entries that are kept.
RECURSIVE KeepFiles(_, _)
KeepFiles(files, filename) ==
    IF files = <<>> THEN <<>>
    ELSE (IF Get(Head(files), "name") = Some(filename) THEN <<>> ELSE <<Head(files)>>)
         \o KeepFiles(Tail(files), filename)

\* Lines 647-650: [chunk for chunk in existing_chunks if chunk.get('pdf_name') != filename]
RECURSIVE FilterChunks(_, _)
FilterChunks(cs, filename) ==
    IF cs = <<>> THEN <<>>
    ELSE (IF Get(Head(cs), "pdf_name") /= Some(filename) THEN <<Head(cs)>> ELSE <<>>)
         \o FilterChunks(Tail(cs), filename)

\* Lines 658-695: what remove_pdf leaves in the embedding store.  With no
\* chunk left it returns before any embedding write; otherwise the rebuilt
\* vectors are saved when the retriever has them.
EmbAfterRemove(old, filtered_chunks, avail) ==
    IF filtered_chunks = <<>> THEN old
    ELSE LET retriever == build_hybrid_index(filtered_chunks, DefaultModel, NONE, avail)
         IN PersistEmbeddings(old, filtered_chunks, retriever.chunk_embeddings,
                              retriever.embedding_model_name)

RemoveEntry(filtered_chunks, new_files_meta, filename, avail) ==
    IF filtered_chunks = <<>>
    THEN [chunks |-> <<>>, domain |-> "general",
          pdf_files |-> FileNames(new_files_meta), project_name |-> Project,
          empty |-> TRUE]
    ELSE [retriever |-> Some(build_hybrid_index(filtered_chunks, DefaultModel, NONE, avail)),
          chunks |-> filtered_chunks, domain |-> "general",
          pdf_files |-> FileNames(new_files_meta), project_name |-> Project,
          removed_file |-> filename, index_error |-> FALSE]

\* A search that takes any listed file for the one named.
AnyFile(existing_files, filename) == existing_files /= <<>>

\* Lines 634-644: file_to_remove is set when an entry of the file list has the
\* name asked for.
FileToRemove(existing_files, filename) ==
    \E i \in DOMAIN existing_files : Get(existing_files[i], "name") = Some(filename)

remove_pdf(filename) ==
    LET existing_files == FilesOf(MetaOrDefault(load_project_meta(meta)))
        existing_chunks == load_project_chunks(chunks)
        found == FileToRemove(existing_files, filename)
        new_files_meta == KeepFiles(existing_files, filename)
        filtered_chunks == FilterChunks(existing_chunks, filename)
        cache_key == nreq + 1
    IN IF load_project_meta(meta) = NONE \/ ~found
       THEN /\ last' = [op |-> "remove_pdf", status |-> 404, filename |-> filename]
            /\ UNCHANGED <<meta, chunks, emb, available, pdf_cache, bg, nreq, removed>>
       ELSE /\ nreq < MaxRequests
            /\ nreq' = cache_key
            /\ emb' = EmbAfterRemove(emb, filtered_chunks, available)
            /\ meta' = Some(MetaWith(The(meta), new_files_meta, "general"))
            /\ chunks' = filtered_chunks
            /\ pdf_cache' = Append(pdf_cache,
                                RemoveEntry(filtered_chunks, new_files_meta, filename, available))
            /\ bg' = Append(bg, NoBg)
            /\ removed' = removed \cup {filename}
            /\ last' = [op |-> "remove_pdf", status |-> 200, key |-> cache_key,
                        filename |-> filename, chunks_before |-> existing_chunks,
                        files_before |-> existing_files]
            /\ UNCHANGED available

\* ------------------------------------------------------------------------
\* Backend/prompt_cache.py: PromptCache
\* ------------------------------------------------------------------------

\* A similarity of 1.0.  Scores are whole numbers of 1/6000, so that k/n for
\* n <= 5 and the 0.7/0.3 blend of two such scores are exact.
One == 6 * 1000

\* similarity_threshold: float = 0.85
DefaultThreshold == (85 * One) \div 100

\* The thresholds a PromptCache is constructed with: the default, which the
\* application uses, and a lower one.
Thresholds == {DefaultThreshold, (60 * One) \div 100}

\* The requests' wordings: q2 is a rewording of q1.
Queries == {"q1", "q2"}

\* A prompt is a fixed prefix followed by the request's wording.
PromptKinds == {"USER", "ANALYSIS:", "SCRIPT:v2_long_3to4min:"}
Prompts == {<<kind, q>> : kind \in PromptKinds, q \in Queries}

\* {} for a dict, and the truth value Python gives a dict.
EmptyDict == <<>>
Truthy(d) == DOMAIN d /= {}

\* cache_data is a dict in insertion order: a sequence of [key, entry].
\* IndexOf is the position of a key, 0 when the key is not in the dict.
IndexOf(data, h) ==
    IF \E i \in DOMAIN data : data[i].key = h
    THEN CHOOSE i \in DOMAIN data : data[i].key = h
    ELSE 0

\* A store that adds an entry for every call, whatever the map holds.
DictAppend(data, h, e) == Append(data, [key |-> h, entry |-> e])

\* data[h] = e: an existing key keeps its position, a new one goes last.
DictSet(data, h, e) ==
    IF IndexOf(data, h) = 0
    THEN Append(data, [key |-> h, entry |-> e])
    ELSE [data EXCEPT ![IndexOf(data, h)].entry = e]

\* A hash that tells prompts apart by their prefix only.
PrefixHash(prompt) == <<"sha256", prompt[1]>>

_hash_prompt(prompt) == <<"sha256", prompt>>

\* Cosine similarity of the encoder's embeddings of two texts: 1.0 for the
\* same text, 0.95 for two wordings behind the same prefix, 0.3 otherwise.
cosine_similarity(text1, text2) ==
    IF text1 = text2 THEN One
    ELSE IF text1[1] = text2[1] THEN (95 * One) \div 100
    ELSE (30 * One) \div 100

_compute_similarity(model, text1, text2) ==
    IF ~model
    THEN (IF text1 = text2 THEN One ELSE 0)
    ELSE cosine_similarity(text1, text2)

_compute_context_similarity(context1, context2) ==
    IF Get(context1, "project_name") /= Get(context2, "project_name") THEN 0
    ELSE IF "chunk_hashes" \in DOMAIN context1 /\ "chunk_hashes" \in DOMAIN context2
    THEN LET hashes1 == Range(context1.chunk_hashes)
             hashes2 == Range(context2.chunk_hashes)
         IN  IF hashes1 = {} /\ hashes2 = {} THEN One
             ELSE IF hashes1 = {} \/ hashes2 = {} THEN 0
             ELSE (One * Cardinality(hashes1 \cap hashes2))
                      \div Cardinality(hashes1 \cup hashes2)
    ELSE LET common_keys == DOMAIN context1 \cap DOMAIN context2
             matches == Cardinality({key \in common_keys : context1[key] = context2[key]})
         IN  IF common_keys = {} THEN 0
             ELSE (One * matches) \div Cardinality(common_keys)

\* The score get gives one stored entry: the prompt similarity, blended 70/30
\* with the context similarity when both contexts are non-empty.
BlendedSimilarity(model, prompt, context, entry) ==
    IF Truthy(context) /\ Truthy(entry.context)
    THEN (7 * _compute_similarity(model, prompt, entry.prompt)
          + 3 * _compute_context_similarity(context, entry.context)) \div 10
    ELSE _compute_similarity(model, prompt, entry.prompt)

\* A scan that keeps the first entry at or above the threshold.
RECURSIVE FirstAbove(_, _, _, _, _, _, _, _)
FirstAbove(data, i, threshold, model, prompt, context, best_match, best_score) ==
    IF i > Len(data) THEN [best_match |-> best_match, best_score |-> best_score]
    ELSE LET similarity == BlendedSimilarity(model, prompt, context, data[i].entry)
         IN  IF best_match = 0 /\ similarity >= threshold
             THEN FirstAbove(data, i + 1, threshold, model, prompt, context, i, similarity)
             ELSE FirstAbove(data, i + 1, threshold, model, prompt, context,
                             best_match, best_score)

\* The loop of get over cache_data.items(), from position i on: best_match is
\* the position of the best entry so far (0 for None).
RECURSIVE SimilarityScan(_, _, _, _, _, _, _, _)
SimilarityScan(data, i, threshold, model, prompt, context, best_match, best_score) ==
    IF i > Len(data) THEN [best_match |-> best_match, best_score |-> best_score]
    ELSE LET similarity == BlendedSimilarity(model, prompt, context, data[i].entry)
         IN  IF similarity > best_score /\ similarity >= threshold
             THEN SimilarityScan(data, i + 1, threshold, model, prompt, context, i, similarity)
             ELSE SimilarityScan(data, i + 1, threshold, model, prompt, context,
                                 best_match, best_score)

\* get returns the stored entry itself after writing the hit fields into it:
\* result is what the caller receives (NONE for None), data is cache_data after.
get(data, threshold, model, prompt, context) ==
    LET prompt_hash == _hash_prompt(prompt)
        i == IndexOf(data, prompt_hash)
        scan == SimilarityScan(data, 1, threshold, model, prompt, context, 0, 0)
    IN  IF i /= 0
        THEN LET entry == Put(data[i].entry, "cache_hit_type", "exact")
             IN  [data |-> [data EXCEPT ![i].entry = entry], result |-> Some(entry)]
        ELSE IF model /\ scan.best_match /= 0
        THEN LET entry == Put(Put(data[scan.best_match].entry, "cache_hit_type", "similar"),
                              "similarity_score", scan.best_score)
             IN  [data |-> [data EXCEPT ![scan.best_match].entry = entry],
                  result |-> Some(entry)]
        ELSE [data |-> data, result |-> NONE]

\* set: a fresh entry replaces whatever the prompt's hash held.  (created_at,
\* last_accessed and metadata play no part in a lookup and are left out.)
set(data, prompt, response, context) ==
    DictSet(data, _hash_prompt(prompt),
            [prompt |-> prompt, response |-> response, context |-> context,
             access_count |-> 0])

clear(data) == <<>>

\* _save_cache: what json.dump writes for the map, one block per entry and a
\* closing block; a file parses exactly when it is such a sequence.
EndOfFile == [end |-> TRUE]
json_dump(data) == Append(data, EndOfFile)

\* The history before any prompt-cache operation.
NoCall == [op |-> "init", gets |-> <<>>]

\* ------------------------------------------------------------------------
\* The ingestion specification
\* ------------------------------------------------------------------------

CacheIdle ==
    /\ cache_data = <<>>
    /\ cache_file = <<>>
    /\ similarity_threshold = DefaultThreshold
    /\ embedding_model = FALSE
    /\ stored = <<>>
    /\ ncalls = 0
    /\ ret = NoCall

Init == IngestInit /\ CacheIdle

CachePdfs == (\E files \in Batches : cache_pdfs(files)) /\ UNCHANGED cacheVars
AppendPdf == (\E file \in Uploads : append_pdf(file)) /\ UNCHANGED cacheVars
RemovePdf == (\E filename \in Names : remove_pdf(filename)) /\ UNCHANGED cacheVars
Extract == (\E k \in DOMAIN bg : BgExtract(k)) /\ UNCHANGED cacheVars
Merge == (\E k \in DOMAIN bg : BgMerge(k)) /\ UNCHANGED cacheVars
Persist == (\E k \in DOMAIN bg : BgPersist(k)) /\ UNCHANGED cacheVars
Publish == (\E k \in DOMAIN bg : BgPublish(k)) /\ UNCHANGED cacheVars

Next ==
    \/ CachePdfs
    \/ AppendPdf
    \/ RemovePdf
    \/ Extract
    \/ Merge
    \/ Persist
    \/ Publish

Spec == Init /\ [][Next]_vars

\* ------------------------------------------------------------------------
\* Backend/app.py: the generation flows that use the prompt cache
\* ------------------------------------------------------------------------

\* Bound: how many prompt-cache operations and generation flows are run.
MaxCalls == 3

\* What a call to the generation service can come to: an answer, or one of
\* the five failures.
Failures == {"unavailable", "api_error", "request_failed", "no_text", "parse_error"}
Outcomes == {"ok"} \cup Failures

\* A text is the sequence of its leading tokens and its remainder.
call_gemini_api(outcome) ==
    CASE outcome = "unavailable" ->
             <<"[", "Gemini", " unavailable: 'httpx' not installed on server]">>
      [] outcome = "api_error" -> <<"[", "Gemini", " API error 500: ...]">>
      [] outcome = "request_failed" -> <<"[", "Gemini", " request failed: ...]">>
      [] outcome = "no_text" -> <<"[", "No", " analysis generated by Gemini]">>
      [] outcome = "parse_error" -> <<"[", "Gemini", " parse error: ...]">>
      [] OTHER -> <<"text", outcome>>

\* text.startswith(prefix)
startswith(text, prefix) ==
    /\ Len(text) >= Len(prefix)
    /\ SubSeq(text, 1, Len(prefix)) = prefix

\* The flows' test before prompt_cache.set.
Cacheable(text) == ~startswith(text, <<"[", "Gemini">>)

GEMINI_DEFAULT_MODEL == "gemini-3-flash-preview"
SCRIPT_PROMPT_VERSION == "v2_long_3to4min"

ProjectNames == {"p1", "p2"}

\* The chunk hashes of the sections a request retrieved.
HashLists == {<<"h1">>, <<"h1", "h2">>}
PodcastHashes == <<"h1">>

AnalyzeContext(project_name, q, chunk_hashes) ==
    [project_name |-> project_name, persona |-> <<"persona", q>>,
     task |-> <<"task", q>>, model |-> GEMINI_DEFAULT_MODEL,
     chunk_hashes |-> chunk_hashes]

PodcastAnalysisContext(safe_project, chunk_hashes) ==
    [type |-> "podcast_analysis", project |-> safe_project,
     model |-> GEMINI_DEFAULT_MODEL, chunk_hashes |-> chunk_hashes]

PodcastScriptContext(safe_project, analysis_text) ==
    [type |-> "podcast_script", project |-> safe_project,
     model |-> GEMINI_DEFAULT_MODEL, analysis_hash |-> hash_bytes(analysis_text),
     prompt_version |-> SCRIPT_PROMPT_VERSION]

\* One lookup as the history records it.
Lookup(prompt, context, g) == [prompt |-> prompt, context |-> context, result |-> g.result]

\* analyze_chunks_with_gemini from the cache lookup on: a hit's response is
\* used, otherwise the service is called and its text stored unless it starts
\* with "[Gemini".
analyze_chunks_with_gemini(project_name, q, chunk_hashes, outcome) ==
    LET cache_context == AnalyzeContext(project_name, q, chunk_hashes)
        user_query == <<"USER", q>>
    IN  /\ ncalls < MaxCalls
        /\ ncalls' = ncalls + 1
        /\ \E g \in {get(cache_data, similarity_threshold, embedding_model,
                          user_query, cache_context)} :
              LET cached == g.result /= NONE
                  gemini_text == IF cached THEN The(g.result).response
                                 ELSE call_gemini_api(outcome)
                  store == ~cached /\ Cacheable(gemini_text)
              IN  /\ \E data \in {IF store
                                   THEN set(g.data, user_query, gemini_text, cache_context)
                                   ELSE g.data} :
                         /\ cache_data' = data
                         /\ cache_file' = IF store THEN json_dump(data) ELSE cache_file
                  /\ stored' = IF store THEN Put(stored, user_query, gemini_text) ELSE stored
                  /\ ret' = [op |-> "analyze",
                             gets |-> <<Lookup(user_query, cache_context, g)>>]
        /\ UNCHANGED <<similarity_threshold, embedding_model>>

\* podcast_from_prompt from the analysis lookup on: the analysis and then the
\* script, each looked up, generated on a miss or a regenerate, and stored
\* unless it starts with "[Gemini".  The service is in one condition for the
\* whole request: both calls come to the same outcome.
podcast_from_prompt(safe_project, q, chunk_hashes, regenerate, outcome) ==
    LET analysis_cache_key == <<"ANALYSIS:", q>>
        analysis_cache_context == PodcastAnalysisContext(safe_project, chunk_hashes)
        script_cache_key == <<"SCRIPT:v2_long_3to4min:", q>>
    IN  /\ ncalls < MaxCalls
        /\ ncalls' = ncalls + 1
        /\ \E g1 \in {get(cache_data, similarity_threshold, embedding_model,
                           analysis_cache_key, analysis_cache_context)} :
              LET cached_analysis == g1.result /= NONE /\ ~regenerate
                  analysis_text == IF cached_analysis THEN The(g1.result).response
                                   ELSE call_gemini_api(outcome)
                  store1 == ~cached_analysis /\ Cacheable(analysis_text)
                  script_cache_context == PodcastScriptContext(safe_project, analysis_text)
                  stored1 == IF store1 THEN Put(stored, analysis_cache_key, analysis_text)
                             ELSE stored
              IN  \E data1 \in {IF store1
                                 THEN set(g1.data, analysis_cache_key, analysis_text,
                                          analysis_cache_context)
                                 ELSE g1.data} :
                  \E g2 \in {get(data1, similarity_threshold, embedding_model,
                                 script_cache_key, script_cache_context)} :
                     LET cached_script == g2.result /= NONE /\ ~regenerate
                         script_text == IF cached_script THEN The(g2.result).response
                                        ELSE call_gemini_api(outcome)
                         store2 == ~cached_script /\ Cacheable(script_text)
                     IN  /\ \E data2 \in {IF store2
                                           THEN set(g2.data, script_cache_key, script_text,
                                                    script_cache_context)
                                           ELSE g2.data} :
                                /\ cache_data' = data2
                                /\ cache_file' = IF store2 THEN json_dump(data2)
                                                 ELSE IF store1 THEN json_dump(data1)
                                                 ELSE cache_file
                         /\ stored' = IF store2 THEN Put(stored1, script_cache_key, script_text)
                                      ELSE stored1
                         /\ ret' = [op |-> "podcast",
                                    gets |-> <<Lookup(analysis_cache_key,
                                                      analysis_cache_context, g1),
                                               Lookup(script_cache_key,
                                                      script_cache_context, g2)>>]
        /\ UNCHANGED <<similarity_threshold, embedding_model>>

\* ------------------------------------------------------------------------
\* The prompt-cache specification
\* ------------------------------------------------------------------------

\* What a direct caller of the class passes: a prompt of the analysis flow or
\* one of the podcast flow, and no context or a context of the analysis flow.
CallerPrompts == {<<"USER", "q1">>, <<"USER", "q2">>}
CallerContexts == {EmptyDict, AnalyzeContext("p1", "q1", <<"h1">>)}

Responses == {call_gemini_api("ok"), <<"text", "other">>}

IngestIdle ==
    /\ meta = NONE
    /\ chunks = <<>>
    /\ emb = NONE
    /\ available = TRUE
    /\ pdf_cache = <<>>
    /\ bg = <<>>
    /\ nreq = 0
    /\ removed = {}
    /\ last = NoStep

\* A PromptCache just constructed over an empty cache directory.
CacheInit ==
    /\ IngestIdle
    /\ cache_data = <<>>
    /\ cache_file = <<>>
    /\ similarity_threshold \in Thresholds
    /\ embedding_model \in BOOLEAN
    /\ stored = <<>>
    /\ ncalls = 0
    /\ ret = NoCall

CacheGet ==
    /\ ncalls < MaxCalls
    /\ \E prompt \in CallerPrompts, context \in CallerContexts :
          LET g == get(cache_data, similarity_threshold, embedding_model, prompt, context)
          IN  /\ cache_data' = g.data
              /\ ret' = [op |-> "get", gets |-> <<Lookup(prompt, context, g)>>]
    /\ ncalls' = ncalls + 1
    /\ UNCHANGED <<cache_file, similarity_threshold, embedding_model, stored>>
    /\ UNCHANGED ingestVars

CacheSet ==
    /\ ncalls < MaxCalls
    /\ \E prompt \in CallerPrompts, response \in Responses, context \in CallerContexts :
          LET data == set(cache_data, prompt, response, context)
          IN  /\ cache_data' = data
              /\ cache_file' = json_dump(data)
              /\ stored' = Put(stored, prompt, response)
              /\ ret' = [op |-> "set", gets |-> <<>>,
                         replaced |-> IndexOf(cache_data, _hash_prompt(prompt)) /= 0]
    /\ ncalls' = ncalls + 1
    /\ UNCHANGED <<similarity_threshold, embedding_model>>
    /\ UNCHANGED ingestVars

CacheClear ==
    /\ ncalls < MaxCalls
    /\ cache_data' = clear(cache_data)
    /\ cache_file' = json_dump(clear(cache_data))
    /\ stored' = <<>>
    /\ ret' = [op |-> "clear", gets |-> <<>>]
    /\ ncalls' = ncalls + 1
    /\ UNCHANGED <<similarity_threshold, embedding_model>>
    /\ UNCHANGED ingestVars

Analyze ==
    /\ \E project_name \in ProjectNames, q \in Queries, chunk_hashes \in HashLists,
          outcome \in Outcomes :
          analyze_chunks_with_gemini(project_name, q, chunk_hashes, outcome)
    /\ UNCHANGED ingestVars

Podcast ==
    /\ \E safe_project \in ProjectNames, q \in Queries, regenerate \in BOOLEAN,
          outcome \in Outcomes :
          podcast_from_prompt(safe_project, q, PodcastHashes, regenerate, outcome)
    /\ UNCHANGED ingestVars

CacheNext ==
    \/ CacheGet
    \/ CacheSet
    \/ CacheClear
    \/ Analyze
    \/ Podcast

CacheSpec == CacheInit /\ [][CacheNext]_vars

\* ------------------------------------------------------------------------
\* The restart specification: the server starts over a project directory
\* that an earlier process left behind
\* ------------------------------------------------------------------------

\* What an earlier ingestion of a.pdf (bytes "x") stored.
PriorFiles == NewFilesMeta(<<File("a.pdf", "x")>>)
PriorMeta == MetaWith(MetaOrDefault(NONE), PriorFiles, "general")
PriorChunks == extract_chunks_with_headings("a.pdf", "x")
PriorRecord ==
    save_embeddings(ChunkIds(PriorChunks), Encode(PriorChunks, DefaultModel), DefaultModel)

\* The record of another chunk list (b.pdf with the same bytes): the state two
\* overlapping batches leave when the one persists its chunks last and the
\* other its vectors last.
OtherRecord ==
    save_embeddings(ChunkIds(extract_chunks_with_headings("b.pdf", "x")),
                    Encode(extract_chunks_with_headings("b.pdf", "x"), DefaultModel),
                    DefaultModel)

\* The directories found at start: no project, a project as stored, one
\* without its record, one whose record is of other chunks, and one with each
\* of its three files unreadable.
Directories ==
    {[meta |-> NONE, chunks |-> <<>>, emb |-> NONE],
     [meta |-> Some(PriorMeta), chunks |-> PriorChunks, emb |-> Some(PriorRecord)],
     [meta |-> Some(PriorMeta), chunks |-> PriorChunks, emb |-> NONE],
     [meta |-> Some(PriorMeta), chunks |-> PriorChunks, emb |-> Some(OtherRecord)],
     [meta |-> Some(Corrupt), chunks |-> PriorChunks, emb |-> Some(PriorRecord)],
     [meta |-> Some(PriorMeta), chunks |-> <<Corrupt>>, emb |-> Some(PriorRecord)],
     [meta |-> Some(PriorMeta), chunks |-> PriorChunks, emb |-> Some(Corrupt)]}

\* ---- import_project_cache                       (app.py, lines 887-988)

\* The "embeddings" object of an import request, from a stored record.
BundleEmbeddings(rec) ==
    [chunk_ids |-> rec.chunk_ids, embeddings |-> rec.embeddings, model_name |-> rec.model]

\* The request bodies a client sends: the project above as exported with its
\* vectors, the same without vectors, and a two-chunk project whose
\* "embeddings" object lists two ids but one vector.
Imports ==
    {[meta |-> PriorMeta, chunks |-> PriorChunks,
      embeddings |-> Some(BundleEmbeddings(PriorRecord))],
     [meta |-> PriorMeta, chunks |-> PriorChunks, embeddings |-> NONE],
     [meta |-> MetaWith(MetaOrDefault(NONE), NewFilesMeta(<<File("a.pdf", "xy")>>), "general"),
      chunks |-> extract_chunks_with_headings("a.pdf", "xy"),
      embeddings |-> Some([chunk_ids |-> ChunkIds(extract_chunks_with_headings("a.pdf", "xy")),
                           embeddings |-> Encode(PriorChunks, DefaultModel),
                           model_name |-> DefaultModel])]}

\* Lines 901-913: the record is written when the request has ids and vectors;
\* nothing compares their numbers.
EmbAfterImport(old, embeddings) ==
    IF embeddings /= NONE
       /\ The(embeddings).chunk_ids /= <<>> /\ The(embeddings).embeddings /= <<>>
    THEN Some(save_embeddings(The(embeddings).chunk_ids, The(embeddings).embeddings,
                              The(embeddings).model_name))
    ELSE old

\* Lines 939-971: the session entry, with the imported vectors when they match
\* the chunks, a fresh index otherwise, None when the build raises.
ImportEntry(request, loaded, avail) ==
    LET ordered == IF loaded = NONE THEN <<>>
                   ELSE Reorder(The(loaded).chunk_ids, request.chunks)
        reuse == loaded /= NONE /\ Len(ordered) = Rows(loaded)
        cs == IF reuse THEN ordered ELSE request.chunks
    IN  [retriever |->
            IF BuildRaises(cs) THEN NONE
            ELSE IF reuse
            THEN Some(build_hybrid_index(ordered, The(loaded).model,
                                         Some(The(loaded).embeddings), avail))
            ELSE Some(build_hybrid_index(request.chunks, DefaultModel, NONE, avail)),
         chunks |-> request.chunks,
         domain |-> request.meta.domain,
         pdf_files |-> FileNames(FilesOf(request.meta)),
         project_name |-> Project,
         imported |-> TRUE]

import_project_cache(request) ==
    /\ nreq < MaxRequests
    /\ nreq' = nreq + 1
    /\ meta' = Some(request.meta)
    /\ chunks' = request.chunks
    /\ emb' = EmbAfterImport(emb, request.embeddings)
    /\ pdf_cache' = Append(pdf_cache,
                           ImportEntry(request, load_embeddings(emb'), available))
    /\ bg' = Append(bg, NoBg)
    /\ last' = [op |-> "import_project_cache", status |-> 200, key |-> nreq + 1]
    /\ UNCHANGED <<available, removed>>

ImportProjectCache ==
    (\E request \in Imports : import_project_cache(request)) /\ UNCHANGED cacheVars

RestartInit ==
    /\ \E d \in Directories : meta = d.meta /\ chunks = d.chunks /\ emb = d.emb
    /\ available \in BOOLEAN
    /\ pdf_cache = <<>>
    /\ bg = <<>>
    /\ nreq = 0
    /\ removed = {}
    /\ last = NoStep
    /\ CacheIdle

RestartNext ==
    \/ CachePdfs
    \/ AppendPdf
    \/ RemovePdf
    \/ ImportProjectCache
    \/ Extract
    \/ Merge
    \/ Persist
    \/ Publish

RestartSpec == RestartInit /\ [][RestartNext]_vars

\* ------------------------------------------------------------------------
\* BundleSpec: export_project_cache hands the client a bundle of the project,
\* the project goes on changing, and import_project_cache is given the bundle
\* back under the same name.                     (app.py, lines 819-988)
\* ------------------------------------------------------------------------

\* What _load_cache finds at start: nothing, or the entries earlier requests
\* stored for this project (by the analyze flow and by the podcast flow) and
\* for another one.
StoredEntry(prompt, context) ==
    [key |-> _hash_prompt(prompt),
     entry |-> [prompt |-> prompt, response |-> call_gemini_api("ok"),
                context |-> context, access_count |-> 0]]

PriorCaches ==
    {<<>>,
     <<StoredEntry(<<"USER", "q1">>, AnalyzeContext(Project, "q1", <<"h1">>)),
       StoredEntry(<<"ANALYSIS:", "q1">>, PodcastAnalysisContext(Project, <<"h1">>)),
       StoredEntry(<<"USER", "q2">>, AnalyzeContext("p2", "q2", <<"h1">>))>>}

\* Lines 845-858: the entries whose context names the project under either key.
ExportedPrompts(data, safe_name) ==
    LET mine == SelectSeq(data, LAMBDA e :
                    \/ Get(e.entry.context, "project_name") = Some(safe_name)
                    \/ Get(e.entry.context, "project") = Some(safe_name))
    IN  [i \in 1..Len(mine) |->
            [hash |-> mine[i].key, prompt |-> mine[i].entry.prompt,
             response |-> mine[i].entry.response, context |-> mine[i].entry.context]]

\* Lines 862-869: the body of the 200 answer.
Bundle(m, cs, e, data) ==
    [project_name |-> Project,
     meta |-> The(load_project_meta(m)),
     chunks |-> load_project_chunks(cs),
     embeddings |-> IF load_embeddings(e) = NONE THEN NONE
                    ELSE Some(BundleEmbeddings(The(load_embeddings(e)))),
     prompt_cache |-> ExportedPrompts(data, Project)]

\* Lines 915-933: every entry of the bundle is stored under its hash.
RECURSIVE RestorePrompts(_, _)
RestorePrompts(data, entries) ==
    IF entries = <<>> THEN data
    ELSE RestorePrompts(DictSet(data, Head(entries).hash,
                                [prompt |-> Head(entries).prompt,
                                 response |-> Head(entries).response,
                                 context |-> Head(entries).context,
                                 access_count |-> 0]),
                        Tail(entries))

\* ret is the answer the client keeps: the bundle, or 404 for no project.
ExportProjectCache ==
    /\ ret' = IF load_project_meta(meta) = NONE
              THEN [op |-> "export_project_cache", gets |-> <<>>, status |-> 404]
              ELSE [op |-> "export_project_cache", gets |-> <<>>, status |-> 200,
                    bundle |-> Bundle(meta, chunks, emb, cache_data)]
    /\ UNCHANGED <<cache_data, cache_file, similarity_threshold, embedding_model,
                   stored, ncalls>>
    /\ UNCHANGED ingestVars

\* The client sends back the bundle it holds.
ImportBundle ==
    /\ ret.op = "export_project_cache"
    /\ ret.status = 200
    /\ import_project_cache(ret.bundle)
    /\ cache_data' = RestorePrompts(cache_data, ret.bundle.prompt_cache)
    /\ cache_file' = IF ret.bundle.prompt_cache /= <<>>
                     THEN json_dump(cache_data')
                     ELSE cache_file
    /\ UNCHANGED <<similarity_threshold, embedding_model, stored, ncalls, ret>>

\* DELETE of the prompt cache while the client holds a bundle.
BundleClear ==
    /\ cache_data /= <<>>
    /\ cache_data' = clear(cache_data)
    /\ cache_file' = json_dump(clear(cache_data))
    /\ UNCHANGED <<similarity_threshold, embedding_model, stored, ncalls, ret>>
    /\ UNCHANGED ingestVars

BundleInit ==
    /\ \E d \in Directories : meta = d.meta /\ chunks = d.chunks /\ emb = d.emb
    /\ available \in BOOLEAN
    /\ pdf_cache = <<>>
    /\ bg = <<>>
    /\ nreq = 0
    /\ removed = {}
    /\ last = NoStep
    /\ cache_data \in PriorCaches
    /\ cache_file = json_dump(cache_data)
    /\ similarity_threshold = DefaultThreshold
    /\ embedding_model = FALSE
    /\ stored = <<>>
    /\ ncalls = 0
    /\ ret = NoCall

BundleNext ==
    \/ ExportProjectCache
    \/ ImportBundle
    \/ BundleClear
    \/ CachePdfs
    \/ RemovePdf
    \/ Extract
    \/ Merge
    \/ Persist
    \/ Publish

BundleSpec == BundleInit /\ [][BundleNext]_vars

\* ------------------------------------------------------------------------
\* SaveSpec: save_project_state and get_project_cache at the grain of their
\* file operations                     (app.py, lines 148-173 and 802-817)
\* Saves run on background threads (asyncio.to_thread) and so interleave with
\* each other and with a handler's loads.  bg[1] is the pair the directory
\* holds at start; bg[k], k > 1, is the k-1st call of save_project_state.
\* ------------------------------------------------------------------------
MaxSaves == 2

\* The (meta, chunks) pairs the program saves in this specification.
Snapshots ==
    {[meta |-> PriorMeta, chunks |-> PriorChunks],
     [meta |-> MetaWith(PriorMeta,
                        PriorFiles \o NewFilesMeta(<<File("b.pdf", "y")>>), "general"),
      chunks |-> PriorChunks \o extract_chunks_with_headings("b.pdf", "y")],
     [meta |-> MetaWith(PriorMeta, <<>>, "general"), chunks |-> <<>>]}

SaveInit ==
    /\ \E d \in {[meta |-> NONE, chunks |-> <<>>],
                  [meta |-> Some(PriorMeta), chunks |-> PriorChunks]} :
           /\ meta = d.meta
           /\ chunks = d.chunks
           /\ bg = <<[pc |-> "done", meta |-> d.meta, chunks |-> d.chunks]>>
    /\ emb = NONE
    /\ available = TRUE
    /\ pdf_cache = <<>>
    /\ nreq = 0
    /\ removed = {}
    /\ last = NoStep
    /\ CacheIdle

SaveFrame == UNCHANGED <<emb, available, pdf_cache, removed>> /\ UNCHANGED cacheVars

\* Line 166: a caller enters save_project_state(project, meta, chunks).
SaveCall ==
    /\ nreq < MaxSaves
    /\ \E snap \in Snapshots :
           bg' = Append(bg, [pc |-> "open_meta", meta |-> Some(snap.meta),
                             chunks |-> snap.chunks])
    /\ nreq' = nreq + 1
    /\ UNCHANGED <<meta, chunks, last>>
    /\ SaveFrame

\* Line 170: open(meta.json, "w") truncates the file.
OpenMeta ==
    /\ \E k \in DOMAIN bg :
           /\ bg[k].pc = "open_meta"
           /\ meta' = Some(Corrupt)
           /\ bg' = [bg EXCEPT ![k].pc = "dump_meta"]
    /\ UNCHANGED <<chunks, nreq, last>>
    /\ SaveFrame

\* Lines 170-171: json.dump and the close of the with block.
DumpMeta ==
    /\ \E k \in DOMAIN bg :
           /\ bg[k].pc = "dump_meta"
           /\ meta' = bg[k].meta
           /\ bg' = [bg EXCEPT ![k].pc = "open_chunks"]
    /\ UNCHANGED <<chunks, nreq, last>>
    /\ SaveFrame

\* Line 172: open(chunks.json, "w") truncates the file.
OpenChunks ==
    /\ \E k \in DOMAIN bg :
           /\ bg[k].pc = "open_chunks"
           /\ chunks' = <<Corrupt>>
           /\ bg' = [bg EXCEPT ![k].pc = "dump_chunks"]
    /\ UNCHANGED <<meta, nreq, last>>
    /\ SaveFrame

\* Lines 172-173: json.dump and the close of the with block.
DumpChunks ==
    /\ \E k \in DOMAIN bg :
           /\ bg[k].pc = "dump_chunks"
           /\ chunks' = bg[k].chunks
           /\ bg' = [bg EXCEPT ![k].pc = "done"]
    /\ UNCHANGED <<meta, nreq, last>>
    /\ SaveFrame

\* Lines 805-807: get_project_cache loads the metadata; absent or unreadable
\* metadata ends the request with exists = False.
LoadMeta ==
    /\ ~(last.op = "get_project_cache" /\ last.pc /= "done")
    /\ LET m == load_project_meta(meta)
       IN  last' = [op |-> "get_project_cache",
                    pc |-> IF m = NONE THEN "done" ELSE "load_chunks",
                    meta |-> m, chunks |-> <<>>]
    /\ UNCHANGED <<meta, chunks, bg, nreq>>
    /\ SaveFrame

\* Lines 808-817: it loads the chunks and answers.
LoadChunks ==
    /\ last.op = "get_project_cache" /\ last.pc = "load_chunks"
    /\ last' = [last EXCEPT !.pc = "done", !.chunks = load_project_chunks(chunks)]
    /\ UNCHANGED <<meta, chunks, bg, nreq>>
    /\ SaveFrame

SaveNext ==
    \/ SaveCall
    \/ OpenMeta
    \/ DumpMeta
    \/ OpenChunks
    \/ DumpChunks
    \/ LoadMeta
    \/ LoadChunks

SaveSpec == SaveInit /\ [][SaveNext]_vars

\* ------------------------------------------------------------------------
\* FaultSpec: cache_pdfs and its background unit over the same directories,
\* with an extractor that raises on some files and with writes to the two
\* stores that fail, and an index build that raises
\*                                 (app.py, lines 377-388, 443-451, 492-551)
\* ------------------------------------------------------------------------

\* Lines 377-388: process_single_pdf catches the extractor's exception and
\* returns []; `broken` are the files the extractor raises on.
ExtractSome(pdf_files, temp, broken) ==
    Concat([i \in 1..Len(pdf_files) |->
               IF pdf_files[i] \in broken THEN <<>>
               ELSE process_single_pdf(pdf_files[i], temp)])

\* Lines 398-452 with such files: future.result() returns [] for them, so
\* lines 438-443 run and the except branch of lines 446-451 does not.
BgExtractBroken(k, broken) ==
    LET b == bg[k]
        fp == [n \in Range(b.pdf_files) |-> "completed"]
    IN /\ b.pc = "queued"
       /\ broken /= {}
       /\ broken \subseteq Range(b.pdf_files)
       /\ bg' = [bg EXCEPT ![k] =
                    Put([b EXCEPT !.pc = "extracted",
                                  !.new_chunks = ExtractSome(b.pdf_files, b.temp, broken),
                                  !.file_progress = fp],
                        "broken", broken)]
       /\ pdf_cache' = [pdf_cache EXCEPT ![k] =
                            Put(Put(@, "file_progress", fp), "processing", TRUE)]
       /\ last' = [op |-> "extract", key |-> k]
       /\ UNCHANGED <<meta, chunks, emb, available, nreq, removed>>

\* Lines 456 / 528 raising: save_project_state writes nothing and the
\* exception reaches line 542; lines 546-550 leave every "completed" status
\* as it is and store file_progress in the entry.
BgPersistFails(k) ==
    LET b == bg[k]
        fp == [n \in DOMAIN b.file_progress |->
                  IF b.file_progress[n] /= "completed" THEN "error"
                  ELSE b.file_progress[n]]
    IN /\ b.pc = "merged"
       /\ bg' = [bg EXCEPT ![k] =
                    Put([b EXCEPT !.pc = "except", !.file_progress = fp],
                        "fault", "content_store")]
       /\ pdf_cache' = [pdf_cache EXCEPT ![k] = Put(@, "file_progress", fp)]
       /\ last' = [op |-> "except", key |-> k]
       /\ UNCHANGED <<meta, chunks, emb, available, nreq, removed>>

\* Lines 467-525: the index build raises (on either path, before any write of
\* the embedding record); the handler of lines 522-525 leaves no retriever and
\* takes the stored chunks followed by the new ones.
BgMergeBuildFails(k) ==
    LET b == bg[k]
        existing == b.existing_chunks
        new_chunks == b.new_chunks
    IN /\ b.pc = "extracted"
       /\ ~(new_chunks = <<>> /\ existing = <<>>)
       /\ bg' = [bg EXCEPT ![k] =
                    Put([b EXCEPT !.pc = "merged",
                                  !.merged_files_meta =
                                      FilesOf(b.existing_meta) \o b.new_files_meta,
                                  !.all_chunks_ordered = existing \o new_chunks,
                                  !.retriever = NONE,
                                  !.incremental_used = FALSE],
                        "fault", "index_build")]
       /\ last' = [op |-> "merge", key |-> k, path |-> "build_failed",
                   loaded |-> load_embeddings(emb), existing |-> existing,
                   new_chunks |-> new_chunks, encoded |-> <<>>]
       /\ UNCHANGED <<meta, chunks, emb, pdf_cache, available, nreq, removed>>

\* Line 551: pdf_cache[cache_key]["processing"] = False
BgExceptDone(k) ==
    LET b == bg[k]
    IN /\ b.pc = "except"
       /\ bg' = [bg EXCEPT ![k] = [b EXCEPT !.pc = "failed"]]
       /\ pdf_cache' = [pdf_cache EXCEPT ![k] = Put(@, "processing", FALSE)]
       /\ last' = [op |-> "except_done", key |-> k]
       /\ UNCHANGED <<meta, chunks, emb, available, nreq, removed>>

ExtractBroken ==
    (\E k \in DOMAIN bg : \E broken \in SUBSET Names : BgExtractBroken(k, broken))
    /\ UNCHANGED cacheVars

MergeUnsaved == (\E k \in DOMAIN bg : BgMergeWith(k, FALSE)) /\ UNCHANGED cacheVars

PersistFails == (\E k \in DOMAIN bg : BgPersistFails(k)) /\ UNCHANGED cacheVars

ExceptDone == (\E k \in DOMAIN bg : BgExceptDone(k)) /\ UNCHANGED cacheVars

MergeBuildFails == (\E k \in DOMAIN bg : BgMergeBuildFails(k)) /\ UNCHANGED cacheVars

FaultNext ==
    \/ CachePdfs
    \/ Extract
    \/ Merge
    \/ Persist
    \/ Publish
    \/ ExtractBroken
    \/ MergeUnsaved
    \/ PersistFails
    \/ ExceptDone
    \/ MergeBuildFails

FaultSpec == RestartInit /\ [][FaultNext]_vars

\* ------------------------------------------------------------------------
\* ProgressSpec: the writes of process_pdfs_background to its session entry,
\* line by line, and get_cache_status reading the entry
\*                          (app.py, lines 400-452, 530-540 and 990-1015)
\* The unit runs on a worker thread; the status handler runs on the event
\* loop and may read between any two of the unit's statements.  After line
\* 412 the entry's "file_progress" is the unit's own dict object, so the
\* unit's updates of a file's fields are at once fields of the entry.
\* ------------------------------------------------------------------------
ProgressInit ==
    /\ \E pdf_files \in {<<"a.pdf">>, <<"a.pdf", "b.pdf">>, <<"b.pdf", "a.pdf">>} :
           bg = <<[pc |-> "l400", i |-> 1, pdf_files |-> pdf_files]>>
    /\ pdf_cache = <<ProcessingEntry(<<>>, <<>>)>>
    /\ meta = NONE
    /\ chunks = <<>>
    /\ emb = NONE
    /\ available = TRUE
    /\ nreq = 1
    /\ removed = {}
    /\ last = NoStep
    /\ CacheIdle

\* One statement of the unit: pc is the line it is about to execute.
BgStatement ==
    LET b == bg[1]
        n == b.pdf_files[b.i]
        fp == pdf_cache[1].file_progress
        Goto(l) == bg' = <<[b EXCEPT !.pc = l]>>
        SetField(field, v, l) ==
            /\ pdf_cache' = <<Put(pdf_cache[1], "file_progress",
                                  [fp EXCEPT ![n] = [@ EXCEPT ![field] = v]])>>
            /\ Goto(l)
    IN  /\ b.pc /= "done"
        /\ CASE b.pc = "l400" ->
                  \* lines 400-412: the dict of every file's progress (its
                  \* "progress" and "status"; "index" and "total_files" never
                  \* change), stored
                  /\ pdf_cache' = <<Put(pdf_cache[1], "file_progress",
                                        [f \in Range(b.pdf_files) |->
                                            [progress |-> 0, status |-> "pending"]])>>
                  /\ Goto("l413")
             [] b.pc = "l413" ->
                  /\ pdf_cache' = <<Put(pdf_cache[1], "processing", TRUE)>>
                  /\ Goto("l432")
             [] b.pc = "l432" -> SetField("status", "processing", "l433")
             [] b.pc = "l433" -> SetField("progress", 25, "l439")
             [] b.pc = "l439" -> SetField("progress", 100, "l440")
             [] b.pc = "l440" -> SetField("status", "completed", "l444")
             [] b.pc = "l444" ->
                  \* line 444 stores the same dict again; next file or line 530
                  /\ pdf_cache' = <<Put(pdf_cache[1], "file_progress", fp)>>
                  /\ bg' = <<IF b.i < Len(b.pdf_files)
                              THEN [b EXCEPT !.pc = "l432", !.i = b.i + 1]
                              ELSE [b EXCEPT !.pc = "l530"]>>
             [] b.pc = "l530" ->
                  \* lines 530-540 when the index build raised (retriever None)
                  /\ pdf_cache' = <<[retriever |-> NONE, chunks |-> <<>>,
                                     domain |-> "general", pdf_files |-> b.pdf_files,
                                     project_name |-> Project, index_error |-> TRUE,
                                     file_progress |-> fp, processing |-> FALSE,
                                     incremental_embeddings |-> FALSE]>>
                  /\ Goto("done")
        /\ UNCHANGED <<meta, chunks, emb, available, nreq, removed, last>>
        /\ UNCHANGED cacheVars

\* Lines 990-1015: the answer of GET /cache-status/{cache_key}.
get_cache_status(entry) ==
    IF "retriever" \in DOMAIN entry
    THEN [ready |-> TRUE, chunk_count |-> Len(entry.chunks),
          pdf_files |-> entry.pdf_files, domain |-> entry.domain,
          project_name |-> entry.project_name]
    ELSE IF "file_progress" \in DOMAIN entry
    THEN [ready |-> FALSE, project_name |-> entry.project_name,
          file_progress |-> entry.file_progress, processing |-> entry.processing]
    ELSE [ready |-> FALSE, project_name |-> entry.project_name]

GetCacheStatus ==
    /\ last' = [op |-> "get_cache_status", response |-> get_cache_status(pdf_cache[1])]
    /\ UNCHANGED <<meta, chunks, emb, available, pdf_cache, bg, nreq, removed>>
    /\ UNCHANGED cacheVars

ProgressNext ==
    \/ BgStatement
    \/ GetCacheStatus

ProgressSpec == ProgressInit /\ [][ProgressNext]_vars

\* ------------------------------------------------------------------------
\* ThreadSpec: PromptCache.set and PromptCache.get as the flows call them,
\* each call on its own worker thread (asyncio.to_thread, app.py lines 1119
\* and 1134), statement by statement        (prompt_cache.py, lines 59-194)
\* bg[t] holds the locals of thread t.  The class has no lock.  A dict
\* iterator remembers the dict's size and raises RuntimeError at its next
\* step when the size has changed.  A file opened with "w" is truncated at
\* once; what json.dump writes stays in the handle's buffer until the close,
\* which puts it at the start of the file.
\* ------------------------------------------------------------------------
MaxThreads == 2

ThreadCalls ==
    {[op |-> "set", prompt |-> <<"USER", "q1">>, response |-> call_gemini_api("ok")],
     [op |-> "set", prompt |-> <<"USER", "q1">>, response |-> <<"text", "other">>],
     [op |-> "set", prompt |-> <<"USER", "q2">>, response |-> call_gemini_api("ok")],
     [op |-> "get", prompt |-> <<"USER", "q2">>, response |-> <<>>]}

ThreadInit ==
    /\ IngestIdle
    /\ cache_data \in {<<>>, set(<<>>, <<"ANALYSIS:", "q1">>, call_gemini_api("ok"), EmptyDict)}
    /\ cache_file = IF cache_data = <<>> THEN <<>> ELSE json_dump(cache_data)
    /\ similarity_threshold = DefaultThreshold
    /\ embedding_model \in BOOLEAN
    /\ stored = <<>>
    /\ ncalls = 0
    /\ ret = NoCall

ThreadFrame ==
    UNCHANGED <<meta, chunks, emb, available, pdf_cache, nreq, removed, last,
                similarity_threshold, embedding_model, stored, ret>>

\* A flow hands a call to a worker thread.
ThreadStart ==
    /\ ncalls < MaxThreads
    /\ \E c \in ThreadCalls :
           bg' = Append(bg, [call |-> c, pc |-> IF c.op = "set" THEN "l192" ELSE "l105",
                             used |-> 0, pos |-> 0, buf |-> <<>>, raised |-> FALSE])
    /\ ncalls' = ncalls + 1
    /\ UNCHANGED <<cache_data, cache_file>>
    /\ ThreadFrame

\* The close of a handle: its buffer replaces the start of the file.
Flush(file, buf) ==
    [i \in 1..(IF Len(buf) > Len(file) THEN Len(buf) ELSE Len(file)) |->
        IF i <= Len(buf) THEN buf[i] ELSE file[i]]

\* One statement of thread t; pc is the line it is about to execute.
ThreadStatement(t) ==
    LET b == bg[t]
        c == b.call
        Goto(l) == bg' = [bg EXCEPT ![t].pc = l]
        changed == Len(cache_data) /= b.used
        scan == get(cache_data, similarity_threshold, embedding_model, c.prompt, EmptyDict)
    IN  /\ b.pc /= "done"
        /\ CASE b.pc = "l192" ->
                  \* set, line 192: self.cache_data[prompt_hash] = entry
                  /\ cache_data' = set(cache_data, c.prompt, c.response, EmptyDict)
                  /\ Goto("l62")
                  /\ UNCHANGED cache_file
             [] b.pc = "l62" ->
                  \* _save_cache, line 62: open(self.cache_file, 'w')
                  /\ cache_file' = <<>>
                  /\ bg' = [bg EXCEPT ![t].pc = "l63", ![t].used = Len(cache_data),
                                       ![t].pos = 1]
                  /\ UNCHANGED cache_data
             [] b.pc = "l63" ->
                  \* line 63: one step of json.dump's iteration over the map;
                  \* a RuntimeError is caught at line 65 and the file closed
                  /\ bg' = [bg EXCEPT ![t] =
                        IF changed THEN [b EXCEPT !.raised = TRUE, !.pc = "close"]
                        ELSE IF b.pos > b.used
                        THEN [b EXCEPT !.buf = Append(b.buf, EndOfFile), !.pc = "close"]
                        ELSE [b EXCEPT !.buf = Append(b.buf, cache_data[b.pos]),
                                       !.pos = b.pos + 1]]
                  /\ UNCHANGED <<cache_data, cache_file>>
             [] b.pc = "close" ->
                  /\ cache_file' = Flush(cache_file, b.buf)
                  /\ Goto("done")
                  /\ UNCHANGED cache_data
             [] b.pc = "l105" ->
                  \* get, lines 104-113: the exact match, else the scan begins
                  /\ IF IndexOf(cache_data, _hash_prompt(c.prompt)) /= 0 \/ ~embedding_model
                     THEN cache_data' = scan.data /\ Goto("done")
                     ELSE /\ bg' = [bg EXCEPT ![t].pc = "l117",
                                              ![t].used = Len(cache_data), ![t].pos = 1]
                          /\ UNCHANGED cache_data
                  /\ UNCHANGED cache_file
             [] b.pc = "l117" ->
                  \* lines 117-136: one step of the scan's iteration; a
                  \* RuntimeError leaves get and fails the call
                  /\ IF changed
                     THEN /\ bg' = [bg EXCEPT ![t].raised = TRUE, ![t].pc = "done"]
                          /\ UNCHANGED cache_data
                     ELSE IF b.pos > b.used
                     THEN cache_data' = scan.data /\ Goto("done")
                     ELSE /\ bg' = [bg EXCEPT ![t].pos = b.pos + 1]
                          /\ UNCHANGED cache_data
                  /\ UNCHANGED cache_file
        /\ UNCHANGED ncalls
        /\ ThreadFrame

ThreadStep == \E t \in DOMAIN bg : ThreadStatement(t)

ThreadNext ==
    \/ ThreadStart
    \/ ThreadStep

ThreadSpec == ThreadInit /\ [][ThreadNext]_vars

\* ------------------------------------------------------------------------
\* The lookup specification: a PromptCache filled by set and read by get, with
\* three wordings of one request and contexts of two projects and of three
\* nested chunk-hash lists, so that a lookup finds several stored entries at
\* different scores.                       (prompt_cache.py, lines 92-194)
\* ------------------------------------------------------------------------

ScanPrompts == {<<"USER", q>> : q \in {"q1", "q2", "q3"}}
ScanContexts ==
    {EmptyDict} \cup
    {AnalyzeContext("p1", "q1", hs) : hs \in {<<"h1">>, <<"h1", "h2">>, <<"h1", "h2", "h3">>}}
    \cup {AnalyzeContext("p2", "q1", <<"h1">>)}

ScanSet ==
    /\ ncalls < MaxCalls
    /\ \E prompt \in ScanPrompts, context \in ScanContexts :
          \E data \in {set(cache_data, prompt, call_gemini_api("ok"), context)} :
              /\ cache_data' = data
              /\ cache_file' = json_dump(data)
              /\ stored' = Put(stored, prompt, call_gemini_api("ok"))
              /\ ret' = [op |-> "set", gets |-> <<>>]
    /\ ncalls' = ncalls + 1
    /\ UNCHANGED <<similarity_threshold, embedding_model>>
    /\ UNCHANGED ingestVars

\* ret keeps, with the lookup, the dict it was made on.
ScanGet ==
    /\ ncalls < MaxCalls
    /\ \E prompt \in ScanPrompts, context \in ScanContexts :
          \E g \in {get(cache_data, similarity_threshold, embedding_model, prompt, context)} :
              /\ cache_data' = g.data
              /\ ret' = [op |-> "get", gets |-> <<Lookup(prompt, context, g)>>,
                         data |-> cache_data]
    /\ ncalls' = ncalls + 1
    /\ UNCHANGED <<cache_file, similarity_threshold, embedding_model, stored>>
    /\ UNCHANGED ingestVars

ScanNext ==
    \/ ScanSet
    \/ ScanGet

ScanSpec == CacheInit /\ [][ScanNext]_vars

\* ========================================================================
\* Backend/src/extract/content_chunker.py
\* ========================================================================
\* A text is the sequence of its characters.  "a", "H" and "G" are letters,
\* "." stands for the sentence terminators '.', '!' and '?', " " is a blank
\* and "\n" the line break (a terminator and white space at once).  Python
\* indexes from 0 and TLA+ from 1: text[i] of the code is text[i + 1] here.

Whitespace == {" ", "\n"}
SentenceEnd == {".", "\n"}

Min(a, b) == IF a < b THEN a ELSE b
Max(a, b) == IF a > b THEN a ELSE b
Greatest(S) == CHOOSE x \in S : \A y \in S : y <= x
Least(S) == CHOOSE x \in S : \A y \in S : x <= y

\* text[a:b] for 0 <= a.
Slice(text, a, b) == SubSeq(text, a + 1, Min(b, Len(text)))

\* str.strip(): the text without its leading and trailing white space.
strip(text) ==
    LET inked == {i \in 1..Len(text) : text[i] \notin Whitespace}
    IN IF inked = {} THEN <<>> ELSE SubSeq(text, Least(inked), Greatest(inked))

\* Defaults of split_text_sliding_window.
DefaultChunkSize == 1000
DefaultOverlap == 200
\* How far back from the window's end a break is looked for.
BreakLookback == 150

\* Lines 96-116: where the window that starts at `start` is cut, when its end
\* lies inside the text.  range(end, search_start, -1) is end down to
\* search_start + 1.
SplitPoint(text, chunk_size, start) ==
    LET end == start + chunk_size
        search_start == Max(start + chunk_size \div 2, end - BreakLookback)
        looked == {i \in (search_start + 1)..end : i < Len(text)}
        sentence == {i \in looked : text[i + 1] \in SentenceEnd}
        space == {i \in looked : text[i + 1] \in Whitespace}
    IN IF sentence /= {} THEN Greatest(sentence) + 1
       ELSE IF space /= {} THEN Greatest(space) + 1
       ELSE end

\* A next start that trusts the overlap to be smaller than the window.
NextStartUnclamped(start, split_point, chunk_size, overlap) == split_point - overlap

\* A next start that leaves the overlap out and skips a character.
NextStartSkipping(start, split_point, chunk_size, overlap) == split_point + 1

\* Lines 120-127: the start of the window after the one cut at split_point.
NextStart(start, split_point, chunk_size, overlap) ==
    LET next_start == split_point - overlap
        forced == IF next_start <= start THEN start + chunk_size \div 2 ELSE next_start
    IN Max(start + 1, forced)

\* Lines 90-127: one turn of the while loop, entered with start < len(text).
WindowIteration(text, chunk_size, overlap, start) ==
    IF start + chunk_size >= Len(text)
    THEN [final |-> TRUE, chunk |-> Slice(text, start, Len(text)),
          split_point |-> Len(text), start |-> start]
    ELSE [final |-> FALSE,
          chunk |-> strip(Slice(text, start, SplitPoint(text, chunk_size, start))),
          split_point |-> SplitPoint(text, chunk_size, start),
          start |-> NextStart(start, SplitPoint(text, chunk_size, start),
                              chunk_size, overlap)]

RECURSIVE WindowLoop(_, _, _, _)
WindowLoop(text, chunk_size, overlap, start) ==
    IF start >= Len(text) THEN <<>>
    ELSE IF WindowIteration(text, chunk_size, overlap, start).final
         THEN <<WindowIteration(text, chunk_size, overlap, start).chunk>>
         ELSE <<WindowIteration(text, chunk_size, overlap, start).chunk>>
              \o WindowLoop(text, chunk_size, overlap,
                            WindowIteration(text, chunk_size, overlap, start).start)

\* Line 129: [c for c in chunks if c.strip()]
NonBlank(cs) == SelectSeq(cs, LAMBDA c : strip(c) /= <<>>)

split_text_sliding_window(text, chunk_size, overlap) ==
    IF Len(text) <= chunk_size THEN <<text>>
    ELSE NonBlank(WindowLoop(text, chunk_size, overlap, 0))

\* ------------------------------------------------------------------------
\* extract_chunks_with_headings
\* ------------------------------------------------------------------------

\* "\n".join(pages)
RECURSIVE JoinPages(_)
JoinPages(pages) ==
    IF pages = <<>> THEN <<>>
    ELSE IF Len(pages) = 1 THEN pages[1]
    ELSE pages[1] \o <<"\n">> \o JoinPages(Tail(pages))

\* `needle in text` on strings.
Contains(text, needle) ==
    \E p \in 0..(Len(text) - Len(needle)) : SubSeq(text, p + 1, p + Len(needle)) = needle

\* Lines 131-135: the first page that holds the content's first 20 characters.
find_page_number(content, pages) ==
    LET holding == {i \in DOMAIN pages : Contains(pages[i], Slice(content, 0, 20))}
    IN IF holding = {} THEN 1 ELSE Least(holding)

_make_chunk_hash(content) == <<"sha256", content>>
ChunkId(pdf_name, heading, page_number, snippet) ==
    <<"sha256", pdf_name, heading, page_number, Slice(snippet, 0, 200)>>

WholeDocument == "Document Content"

Chunk(pdf_name, heading, page_number, content) ==
    [heading |-> heading, content |-> content, pdf_name |-> pdf_name,
     page_number |-> page_number,
     chunk_id |-> ChunkId(pdf_name, heading, page_number, content),
     chunk_hash |-> _make_chunk_hash(content)]

\* sorted(headings, key=len, reverse=True): longest first, equal lengths in
\* their order in the list.
RECURSIVE LongestFirst(_)
LongestFirst(headings) ==
    IF headings = <<>> THEN <<>>
    ELSE LET top == Greatest({Len(headings[i]) : i \in DOMAIN headings})
             first == Least({i \in DOMAIN headings : Len(headings[i]) = top})
         IN <<headings[first]>>
            \o LongestFirst([i \in 1..(Len(headings) - 1) |->
                                IF i < first THEN headings[i] ELSE headings[i + 1]])

\* ^ under re.MULTILINE: the start of the text or just after a line break.
LineStart(text, p) == p = 0 \/ text[p] = "\n"
\* $ under re.MULTILINE: the end of the text or just before a line break.
LineEnd(text, p) == p = Len(text) \/ text[p + 1] = "\n"

\* ^(h)\s*$ at position p: the heading, then white space up to a line end.
HeadingAt(text, p, h) ==
    /\ LineStart(text, p)
    /\ p + Len(h) <= Len(text)
    /\ SubSeq(text, p + 1, p + Len(h)) = h
    /\ \E e \in (p + Len(h))..Len(text) :
          /\ \A j \in (p + Len(h) + 1)..e : text[j] \in Whitespace
          /\ LineEnd(text, e)

\* The positions where the look-ahead matches.
MatchPositions(text, headings) ==
    {p \in 0..Len(text) : \E i \in DOMAIN headings : HeadingAt(text, p, headings[i])}

\* The group the match at p captures: the first alternative that matches.
Captured(text, p, sorted) ==
    sorted[Least({i \in DOMAIN sorted : HeadingAt(text, p, sorted[i])})]

\* Lines 38-40: re.split on the look-ahead, as (heading, part) pairs: parts[i]
\* is the captured heading and parts[i+1] the text from that match up to the
\* next one (the look-ahead consumes nothing, so the part begins with the
\* heading line).
RECURSIVE SplitPairs(_, _, _)
SplitPairs(text, sorted, positions) ==
    IF positions = {} THEN <<>>
    ELSE LET p == Least(positions)
             rest == positions \ {p}
             q == IF rest = {} THEN Len(text) ELSE Least(rest)
         IN <<[heading |-> Captured(text, p, sorted), part |-> Slice(text, p, q)]>>
            \o SplitPairs(text, sorted, rest)

\* Lines 43-61: the chunks of one (heading, part) pair.
PairChunks(pdf_name, pages, pair) ==
    LET heading == strip(pair.heading)
        content == strip(pair.part)
        sub_chunks == split_text_sliding_window(content, DefaultChunkSize, DefaultOverlap)
    IN IF heading /= <<>> /\ content /= <<>>
       THEN [i \in DOMAIN sub_chunks |->
               Chunk(pdf_name, heading, find_page_number(sub_chunks[i], pages),
                     sub_chunks[i])]
       ELSE <<>>

\* A whole-document chunk on the page number of a content found nowhere.
FallbackPageUnknown(pdf_name, all_text) ==
    IF strip(all_text) /= <<>>
    THEN <<Chunk(pdf_name, WholeDocument, -1, strip(all_text))>>
    ELSE <<>>

\* Lines 21-36 and 63-76: the one chunk for the whole document.
FallbackChunks(pdf_name, all_text) ==
    IF strip(all_text) /= <<>>
    THEN <<Chunk(pdf_name, WholeDocument, 1, strip(all_text))>>
    ELSE <<>>

\* A fallback that only serves documents without headings.
HeadingChunksOnly(pdf_name, pages, headings) ==
    LET all_text == JoinPages(pages)
        pairs == SplitPairs(all_text, LongestFirst(headings),
                            MatchPositions(all_text, headings))
    IN IF headings = <<>> THEN FallbackChunks(pdf_name, all_text)
       ELSE Concat([i \in DOMAIN pairs |-> PairChunks(pdf_name, pages, pairs[i])])

\* Lines 14-78.
ExtractChunks(pdf_name, pages, headings) ==
    LET all_text == JoinPages(pages)
        pairs == SplitPairs(all_text, LongestFirst(headings),
                            MatchPositions(all_text, headings))
        made == Concat([i \in DOMAIN pairs |-> PairChunks(pdf_name, pages, pairs[i])])
    IN IF headings = <<>> THEN FallbackChunks(pdf_name, all_text)
       ELSE IF made = <<>> THEN FallbackChunks(pdf_name, all_text)
       ELSE made

\* ------------------------------------------------------------------------
\* The chunker specification: one call of split_text_sliding_window, run one
\* turn of its loop at a time, or one call of extract_chunks_with_headings.
\* bg[1] holds the locals of the call, and in spans the history of its windows:
\* the (start, split point) of each turn of the loop.
\* ------------------------------------------------------------------------

\* Bounds: the longest short text, the largest short window and overlap, and
\* the longest page of a document.
MaxTextLen == 4
MaxChunkSize == 3
MaxOverlap == 3
MaxPageLen == 3

TextChars == {"a", ".", " ", "\n"}
ShortTexts == UNION {[1..n -> TextChars] : n \in 1..MaxTextLen}

\* The length of the long texts.
LongLen == 2400

\* A text of n letters with a blank at every blank_every-th place and a
\* terminator at every stop_every-th (0: none).
Pattern(n, stop_every, blank_every) ==
    [i \in 1..n |->
        IF blank_every > 0 /\ i % blank_every = 0 THEN " "
        ELSE IF stop_every > 0 /\ i % stop_every = 0 THEN "."
        ELSE "a"]

LongTexts == {Pattern(LongLen, s, b) : s \in {0, 3, 170, 900}, b \in {0, 1, 2, 140, 1000}}

SplitCalls ==
    {[text |-> t, chunk_size |-> l, overlap |-> o] :
        t \in ShortTexts, l \in 1..MaxChunkSize, o \in 0..MaxOverlap}
    \cup {[text |-> t, chunk_size |-> DefaultChunkSize, overlap |-> DefaultOverlap] :
            t \in LongTexts}

PageChars == {"H", "a", " ", "\n"}
Pages == {<<>>} \cup UNION {[1..n -> PageChars] : n \in 1..MaxPageLen}
\* Documents of one page, and of two pages of at most two characters.
Documents == {<<p>> : p \in Pages} \cup {<<p, q>> : p, q \in {r \in Pages : Len(r) <= 2}}

\* No headings, a heading that can be a line of the text, one that cannot, and
\* two headings of which one begins with the other.
HeadingLists == {<<>>, <<<<"H">>>>, <<<<"G">>>>, <<<<"H">>, <<"H", "a">>>>}

PdfName == "doc.pdf"

ChunkInit == IngestIdle /\ CacheIdle

ChunkFrame == UNCHANGED <<meta, chunks, emb, available, pdf_cache, nreq, removed>>
             /\ UNCHANGED cacheVars

\* Lines 81-88: the call, with its early return for a text within one window.
CallSplit ==
    /\ bg = <<>>
    /\ \E c \in SplitCalls :
          bg' = <<[fn |-> "split_text_sliding_window", text |-> c.text,
                   chunk_size |-> c.chunk_size, overlap |-> c.overlap,
                   start |-> 0, chunks |-> <<>>, spans |-> <<>>,
                   pc |-> IF Len(c.text) <= c.chunk_size THEN "done" ELSE "while",
                   result |-> IF Len(c.text) <= c.chunk_size THEN <<c.text>> ELSE <<>>]>>
    /\ last' = [op |-> "call"]
    /\ ChunkFrame

\* Lines 90-127: the loop test and one turn of the loop.
WindowTurn ==
    /\ bg /= <<>>
    /\ bg[1].fn = "split_text_sliding_window"
    /\ bg[1].pc = "while"
    /\ LET b == bg[1]
           w == WindowIteration(b.text, b.chunk_size, b.overlap, b.start)
       IN IF b.start < Len(b.text)
          THEN /\ bg' = <<[b EXCEPT !.chunks = Append(@, w.chunk),
                                    !.spans = Append(@, <<b.start, w.split_point>>),
                                    !.start = w.start,
                                    !.pc = IF w.final THEN "l129" ELSE "while"]>>
               /\ last' = [op |-> "turn", start |-> b.start,
                           split_point |-> w.split_point, final |-> w.final]
          ELSE /\ bg' = <<[b EXCEPT !.pc = "l129"]>>
               /\ last' = [op |-> "exit"]
    /\ ChunkFrame

\* Line 129: the return.
WindowReturn ==
    /\ bg /= <<>>
    /\ bg[1].fn = "split_text_sliding_window"
    /\ bg[1].pc = "l129"
    /\ bg' = <<[bg[1] EXCEPT !.result = NonBlank(bg[1].chunks), !.pc = "done"]>>
    /\ last' = [op |-> "return"]
    /\ ChunkFrame

\* One call of extract_chunks_with_headings on a document and a heading list.
CallExtract ==
    /\ bg = <<>>
    /\ \E pages \in Documents, headings \in HeadingLists :
          bg' = <<[fn |-> "extract_chunks_with_headings", pages |-> pages,
                   headings |-> headings, all_text |-> JoinPages(pages), pc |-> "done",
                   result |-> ExtractChunks(PdfName, pages, headings)]>>
    /\ last' = [op |-> "call"]
    /\ ChunkFrame

ChunkNext ==
    \/ CallSplit
    \/ WindowTurn
    \/ WindowReturn
    \/ CallExtract

ChunkSpec == ChunkInit /\ [][ChunkNext]_vars

\* ------------------------------------------------------------------------
\* AgeSpec: a PromptCache whose entries are stored on different days and
\* aged out by remove_old_entries.  The day is ncalls: every call is made a
\* day after the one before.              (prompt_cache.py, lines 163-255)
\* ------------------------------------------------------------------------

MaxDays == 4

\* The ages remove_old_entries is called with.
AgeLimits == {0, 1, 2}

\* 'created_at': datetime.now().isoformat() of the entry set stores.
created_at(data, prompt, now) ==
    [data EXCEPT ![IndexOf(data, _hash_prompt(prompt))].entry =
        Put(@, "created_at", now)]

\* del cache_data[key] for the key at position i.
DictDel(data, i) == SubSeq(data, 1, i - 1) \o SubSeq(data, i + 1, Len(data))

\* remove_old_entries deletes inside  for .. in self.cache_data.items() : the
\* first deletion changes the dict's size and the iterator's next step raises
\* RuntimeError, before _save_cache and before the return.
remove_old_entries(data, now, days) ==
    LET cutoff_date == now - days
        old == {i \in DOMAIN data : data[i].entry.created_at < cutoff_date}
    IN  IF old = {}
        THEN [data |-> data, raised |-> FALSE, saved |-> FALSE, removed_count |-> 0]
        ELSE [data |-> DictDel(data, Least(old)), raised |-> TRUE, saved |-> FALSE,
              removed_count |-> 1]

AgeSet ==
    /\ ncalls < MaxDays
    /\ \E prompt \in ScanPrompts :
          \E data \in {created_at(set(cache_data, prompt, call_gemini_api("ok"), EmptyDict),
                                  prompt, ncalls)} :
              /\ cache_data' = data
              /\ cache_file' = json_dump(data)
              /\ stored' = Put(stored, prompt, call_gemini_api("ok"))
              /\ ret' = [op |-> "set", gets |-> <<>>]
    /\ ncalls' = ncalls + 1
    /\ UNCHANGED <<similarity_threshold, embedding_model>>
    /\ UNCHANGED ingestVars

\* ret keeps the dict before the call, the cutoff, and how the call ended.
AgeRemove ==
    /\ ncalls < MaxDays
    /\ \E days \in AgeLimits :
          \E r \in {remove_old_entries(cache_data, ncalls, days)} :
              /\ cache_data' = r.data
              /\ cache_file' = IF r.saved THEN json_dump(r.data) ELSE cache_file
              /\ ret' = [op |-> "remove_old_entries", gets |-> <<>>,
                         before |-> cache_data, cutoff_date |-> ncalls - days,
                         raised |-> r.raised, removed_count |-> r.removed_count]
    /\ ncalls' = ncalls + 1
    /\ UNCHANGED <<similarity_threshold, embedding_model, stored>>
    /\ UNCHANGED ingestVars

AgeNext ==
    \/ AgeSet
    \/ AgeRemove

AgeSpec == CacheInit /\ [][AgeNext]_vars

\* ------------------------------------------------------------------------
\* QuerySpec: query_pdfs on the session tokens while cache_pdfs and its
\* background unit run, with failing saves and failing index builds
\*                                              (app.py, lines 725-800)
\* ------------------------------------------------------------------------

\* The values of k a client asks for: one result, and the default.
TopK == {1, 5}

\* search_top_k_hybrid(retriever, query, persona, task, k): the k best chunks
\* of the index, all of them when it has fewer; the answer lists their number.
search_top_k_hybrid(retriever, k) == Min(k, retriever.n_chunks)

\* A query that ranks whatever chunks the entry holds.
QueryAnyEntry(cache, cache_key, k) ==
    IF cache_key \notin DOMAIN cache THEN [status |-> 404]
    ELSE [status |-> 200, input_documents |-> cache[cache_key].pdf_files,
          extracted_sections |-> Min(k, Len(cache[cache_key].chunks))]

\* Lines 735-800: 404 for an unknown key; cached_data["retriever"] raises
\* KeyError on an entry without the key and the search raises on None, both
\* answered 500; otherwise the ranked sections.
query_pdfs(cache, cache_key, k) ==
    IF cache_key \notin DOMAIN cache THEN [status |-> 404]
    ELSE IF "retriever" \notin DOMAIN cache[cache_key]
    THEN [status |-> 500, detail |-> "Error querying PDFs"]
    ELSE IF cache[cache_key].retriever = NONE
    THEN [status |-> 500, detail |-> "Search error"]
    ELSE [status |-> 200, input_documents |-> cache[cache_key].pdf_files,
          extracted_sections |-> search_top_k_hybrid(The(cache[cache_key].retriever), k)]

QueryPdfs ==
    /\ \E cache_key \in 1..(MaxRequests + 1), k \in TopK :
          last' = [op |-> "query_pdfs", key |-> cache_key, k |-> k,
                   answer |-> query_pdfs(pdf_cache, cache_key, k)]
    /\ UNCHANGED <<meta, chunks, emb, available, pdf_cache, bg, nreq, removed>>
    /\ UNCHANGED cacheVars

QueryNext ==
    \/ CachePdfs
    \/ Extract
    \/ Merge
    \/ Persist
    \/ Publish
    \/ PersistFails
    \/ ExceptDone
    \/ MergeBuildFails
    \/ QueryPdfs

QuerySpec == RestartInit /\ [][QueryNext]_vars

\* ------------------------------------------------------------------------
\* NameSpec: the project directory of a client-supplied project name
\*                          (app.py, lines 136-146; vector_store.py, 22-23)
\* A name is a sequence of characters, a path a sequence of components.
\* ------------------------------------------------------------------------

MaxNameLen == 3

\* The slice [:100] of line 137.
NameLimit == 100

\* Characters a client puts into a name.
ClientChars == {"a", "-", ".", "/", "\\", " "}

ClientNames == UNION {[1..n -> ClientChars] : n \in 0..MaxNameLen}

\* The class [A-Za-z0-9_.-] of line 137, over the characters used here.
NameClass == {"a", "c", "e", "j", "o", "p", "r", "t", "-", ".", "_"}

Separators == {"/", "\\"}

\* BASE_DATA_DIR (line 115), resolved.
BASE_DATA_DIR == <<"tmp", "projects">>

\* Line 137: re.sub(r"[^A-Za-z0-9_.-]", "_", name)[:100] if name else "project".
safe_project_name(name) ==
    IF name /= <<>>
    THEN [i \in 1..Min(NameLimit, Len(name)) |->
             IF name[i] \in NameClass THEN name[i] ELSE "_"]
    ELSE <<"p", "r", "o", "j", "e", "c", "t">>

\* The components a name contributes to a path: it is cut at the separators.
RECURSIVE Components(_)
Components(name) ==
    IF \A i \in 1..Len(name) : name[i] \notin Separators
    THEN <<name>>
    ELSE \E i \in {Least({j \in 1..Len(name) : name[j] \in Separators})} :
            <<SubSeq(name, 1, i - 1)>> \o Components(SubSeq(name, i + 1, Len(name)))

\* The directory a path names: empty and "." components stay in place, ".."
\* goes to the parent.
RECURSIVE Resolve(_, _)
Resolve(dir, comps) ==
    IF comps = <<>> THEN dir
    ELSE IF Head(comps) \in {<<>>, <<".">>} THEN Resolve(dir, Tail(comps))
    ELSE IF Head(comps) = <<".", ".">>
    THEN Resolve(IF dir = <<>> THEN dir ELSE SubSeq(dir, 1, Len(dir) - 1), Tail(comps))
    ELSE Resolve(Append(dir, Head(comps)), Tail(comps))

\* Lines 139-140: BASE_DATA_DIR / _safe_project_name(project_name).
project_path(project_name) ==
    Resolve(BASE_DATA_DIR, Components(safe_project_name(project_name)))

\* vector_store.py 22-23: base_dir / project_name / EMBED_FILENAME, the
\* directory part.
project_emb_path(base_dir, project_name) ==
    Resolve(base_dir, Components(project_name))

\* Lines 166-173 and the save_embeddings calls: a handler derives safe_name
\* from the client's name (lines 571, 626, 826, 894) and writes the project's
\* files; ret keeps the directories written to.
SaveNamedProject ==
    /\ \E project_name \in ClientNames :
          \E safe_name \in {safe_project_name(project_name)} :
             ret' = [op |-> "save_project_state", gets |-> <<>>,
                     project_name |-> project_name, safe_name |-> safe_name,
                     dirs |-> {project_path(safe_name),
                               project_emb_path(BASE_DATA_DIR, safe_name)}]
    /\ UNCHANGED <<cache_data, cache_file, similarity_threshold, embedding_model,
                   stored, ncalls>>
    /\ UNCHANGED ingestVars

\* Lines 148-164 and load_embeddings: a handler reads the project's files.
LoadNamedProject ==
    /\ \E project_name \in ClientNames :
          \E safe_name \in {safe_project_name(project_name)} :
             ret' = [op |-> "load_project_meta", gets |-> <<>>,
                     project_name |-> project_name, safe_name |-> safe_name,
                     dirs |-> {project_path(safe_name),
                               project_emb_path(BASE_DATA_DIR, safe_name)}]
    /\ UNCHANGED <<cache_data, cache_file, similarity_threshold, embedding_model,
                   stored, ncalls>>
    /\ UNCHANGED ingestVars

NameNext ==
    \/ SaveNamedProject
    \/ LoadNamedProject

NameSpec == CacheInit /\ [][NameNext]_vars

\* ========================================================================
\* Claims on the ingestion specification
\* ========================================================================

StoredFiles == FilesOf(MetaOrDefault(meta))

\* Every background unit that was started has run to its end.
Quiescent == \A k \in DOMAIN bg : bg[k].pc \in {"none", "done"}

\* C1: after every completed ingestion, removal or merge the persisted
\* EmbeddingRecord's chunk_ids equal, element by element, the chunk ids of the
\* persisted chunk list.
C1_OrderInvariant ==
    (Quiescent /\ emb /= NONE) => The(emb).chunk_ids = ChunkIds(chunks)

\* A stored record is valid for a chunk list: one id per row, as many rows as
\* chunks, and the ids are the chunks' ids.
ValidRecord(rec, cs) ==
    /\ Len(rec.chunk_ids) = Len(rec.embeddings)
    /\ Len(cs) = Len(rec.embeddings)
    /\ Range(rec.chunk_ids) = Range(ChunkIds(cs))

C2_Case ==
    /\ last.op = "merge"
    /\ last.existing /= <<>>
    /\ last.new_chunks /= <<>>
    /\ last.loaded /= NONE
    /\ ValidRecord(The(last.loaded), last.existing)
    /\ available

\* C2: when an ingestion merges M new chunks into N existing chunks that have a
\* valid persisted record (and the encoder is available), the merged record's
\* first N ids and vectors are those of the record before, the M vectors of
\* the new chunks follow in new-chunk order, and only the new chunks were
\* encoded.
C2_IncrementalMerge ==
    C2_Case =>
        LET before == The(last.loaded)
            n == Len(before.embeddings)
            m == Len(last.new_chunks)
        IN /\ emb /= NONE
           /\ Len(The(emb).embeddings) = n + m
           /\ Len(The(emb).chunk_ids) = n + m
           /\ SubSeq(The(emb).embeddings, 1, n) = before.embeddings
           /\ SubSeq(The(emb).chunk_ids, 1, n) = before.chunk_ids
           /\ SubSeq(The(emb).embeddings, n + 1, n + m)
                = Encode(last.new_chunks, before.model)
           /\ SubSeq(The(emb).chunk_ids, n + 1, n + m) = ChunkIds(last.new_chunks)
           /\ last.encoded = last.new_chunks

C2_Witness == C2_Case /\ last.path = "incremental" /\ Len(last.new_chunks) = 2

\* How often a value occurs in a sequence.
Count(s, x) == Cardinality({i \in DOMAIN s : s[i] = x})

\* The stored files that contain a chunk: files of the chunk's name whose
\* content has the chunk's section (the content is what the hash was taken of).
FilesHolding(c) ==
    {h \in FileHashes(StoredFiles) :
        /\ \E i \in DOMAIN StoredFiles :
              StoredFiles[i].hash = h /\ StoredFiles[i].name = c.pdf_name
        /\ c.content \in Range(SectionsOf(h[2]))}

\* C3: no content hash appears twice in the stored file list, and no file's
\* chunks appear twice in the stored chunk list (a chunk is stored at most
\* once per stored file that contains it).
C3_Idempotence ==
    /\ \A i, j \in DOMAIN StoredFiles :
          i /= j => StoredFiles[i].hash /= StoredFiles[j].hash
    /\ \A i \in DOMAIN chunks :
          Count(chunks, chunks[i]) <= Cardinality(FilesHolding(chunks[i]))

\* C4: after the ingestion batches have completed, the stored file list and
\* chunk list hold the files and chunks of every batch (of the files that no
\* remove_pdf was asked to remove).
C4_NoLostUpdate ==
    Quiescent =>
        \A k \in DOMAIN bg :
            bg[k].pc = "done" =>
                /\ \A i \in DOMAIN bg[k].new_files_meta :
                      bg[k].new_files_meta[i].name \notin removed
                        => bg[k].new_files_meta[i].hash \in FileHashes(StoredFiles)
                /\ \A i \in DOMAIN bg[k].new_chunks :
                      bg[k].new_chunks[i].pdf_name \notin removed
                        => bg[k].new_chunks[i] \in Range(chunks)

\* C5: a successful remove_pdf(name) leaves exactly the chunks of the other
\* files, in their order, and afterwards the persisted record has as many rows
\* as chunks remain (stated for a deployment whose encoder is available).
C5_RemovalCascade ==
    (last.op = "remove_pdf" /\ last.status = 200 /\ available) =>
        /\ chunks = SelectSeq(last.chunks_before,
                              LAMBDA c : c.pdf_name /= last.filename)
        /\ Rows(emb) = Len(chunks)

\* C10: every session token given out for a batch with new files ends ready
\* (holding a retriever) or marked with an error.
C10_TerminalState ==
    \A k \in DOMAIN bg :
        bg[k].pc = "done" =>
            \/ Get(pdf_cache[k], "retriever") \notin {NONE, Some(NONE)}
            \/ "error" \in DOMAIN pdf_cache[k]
            \/ Get(pdf_cache[k], "index_error") = Some(TRUE)

\* An upload request (cache_pdfs or append_pdf) has just been accepted; the
\* stored file list is still the one the request read.
C20_Case == last.op \in {"cache_pdfs", "append_pdf"} /\ "files" \in DOMAIN last

C20_KnownHashes == FileHashes(FilesOf(MetaOrDefault(load_project_meta(meta))))

C20_Taken == IF bg[last.key].pc = "none" THEN <<>> ELSE bg[last.key].new_files_meta

\* C20: the files an upload request takes as new are exactly the uploaded
\* files whose content hash is not in the project's file list, in upload
\* order: a known hash is skipped under any name, an unknown hash is taken
\* even under a name the list already has.
C20_HashDecides ==
    C20_Case =>
        LET Unknown(f) == hash_bytes(f.content) \notin C20_KnownHashes
        IN  C20_Taken = NewFilesMeta(SelectSeq(last.files, Unknown))

\* A file is taken under a name the list already has, and another file of the
\* same upload is skipped for its known hash.
C20_Witness ==
    /\ C20_Case
    /\ \E i \in DOMAIN C20_Taken :
           C20_Taken[i].name \in Range(FileNames(FilesOf(MetaOrDefault(load_project_meta(meta)))))
    /\ \E i \in DOMAIN last.files : hash_bytes(last.files[i].content) \in C20_KnownHashes

\* ========================================================================
\* Claims on the prompt-cache specification
\* ========================================================================

\* The project a context names, under either of the keys the flows use.
ProjectId(context) ==
    IF "project_name" \in DOMAIN context THEN Some(context.project_name)
    ELSE IF "project" \in DOMAIN context THEN Some(context.project)
    ELSE NONE

\* The lookups of the last operation that returned an entry.
Hits == {i \in DOMAIN ret.gets : ret.gets[i].result /= NONE}

\* C6: every entry a lookup returns, by exact hash match or by similarity,
\* has a stored context whose project identifier equals the one in the
\* request's context (stated for requests and entries that name a project).
C6_ProjectGate ==
    \A i \in Hits :
        LET request == ret.gets[i].context
            entry == The(ret.gets[i].result)
        IN  (ProjectId(request) /= NONE /\ ProjectId(entry.context) /= NONE)
                => ProjectId(entry.context) = ProjectId(request)

\* C7: on the similarity path, a stored entry whose context names a different
\* project than the supplied context is never returned, whatever the prompt
\* similarity and the threshold.
C7_SimilarityGate ==
    \A i \in Hits :
        LET request == ret.gets[i].context
            entry == The(ret.gets[i].result)
        IN  (/\ entry.cache_hit_type = "similar"
             /\ ProjectId(request) /= NONE
             /\ ProjectId(entry.context) /= NONE)
                => ProjectId(entry.context) = ProjectId(request)

\* C8: after set(P, R, C), get(P) returns the entry of P with response R and
\* cache_hit_type exact, whatever else is stored and whatever was looked up in
\* between, as long as that set is the latest one for P and no clear followed.
C8_ExactHit ==
    (ret.op = "get" /\ ret.gets[1].prompt \in DOMAIN stored)
        => /\ ret.gets[1].result /= NONE
           /\ The(ret.gets[1].result).prompt = ret.gets[1].prompt
           /\ The(ret.gets[1].result).response = stored[ret.gets[1].prompt]
           /\ The(ret.gets[1].result).cache_hit_type = "exact"

\* A get(P) after set(P, ..) with a similarity lookup in between that returned
\* P's entry and left its score in it.
C8_Witness ==
    /\ ret.op = "get"
    /\ ret.gets[1].prompt \in DOMAIN stored
    /\ ret.gets[1].result /= NONE
    /\ "similarity_score" \in DOMAIN The(ret.gets[1].result)

\* C9: no text that call_gemini_api returns for a failure is ever stored as a
\* response in the prompt cache.
C9_NoFailureStored ==
    \A i \in DOMAIN cache_data :
        cache_data[i].entry.response \notin {call_gemini_api(outcome) : outcome \in Failures}

\* C19: storing under a prompt that is already stored overwrites its one
\* entry: the map holds one entry per distinct prompt stored since the last
\* clear, no key twice, and each prompt's entry holds the response of its
\* most recent set, which an exact lookup returns.
C19_SetIdempotent ==
    /\ Len(cache_data) = Cardinality(DOMAIN stored)
    /\ \A i, j \in DOMAIN cache_data :
           cache_data[i].key = cache_data[j].key => i = j
    /\ \A p \in DOMAIN stored :
           LET g == get(cache_data, similarity_threshold, embedding_model, p, EmptyDict)
           IN  g.result /= NONE /\ The(g.result).response = stored[p]

C19_Witness ==
    /\ ret.op = "set"
    /\ ret.replaced
    /\ Len(cache_data) = Cardinality(DOMAIN stored)
    /\ cache_data /= <<>>

\* ========================================================================
\* Claims on the restart specification
\* ========================================================================

\* A merge step that found no usable record: none loads, or the existing
\* chunks matched to its ids are not as many as its rows (encoder available).
C11_Case ==
    /\ last.op = "merge"
    /\ last.path /= "empty"
    /\ available
    /\ \/ last.loaded = NONE
       \/ Len(Reorder(The(last.loaded).chunk_ids, last.existing)) /= Rows(last.loaded)

C12_IdsMatchRows ==
    load_embeddings(emb) /= NONE
        => Len(The(emb).chunk_ids) = Len(The(emb).embeddings)

C14_Case ==
    /\ nreq = 1
    /\ bg[1].pc = "merged"
    /\ \/ meta /= NONE /\ IsCorrupt(The(meta))
       \/ chunks /= <<>> /\ IsCorrupt(chunks[1])

\* C14: an ingestion into a project whose metadata file or chunk file cannot
\* be read ends, like an ingestion into a project that does not exist, with a
\* file list and a chunk list that hold the newly ingested files only.
C14_CorruptAsAbsent ==
    C14_Case =>
        /\ bg[1].merged_files_meta = bg[1].new_files_meta
        /\ bg[1].all_chunks_ordered = bg[1].new_chunks

\* ========================================================================
\* Claims on the save/load specification
\* ========================================================================

\* C13: every completed load of a project's metadata and chunks returns a
\* pair that some save wrote as a whole (or the pair the directory held at
\* start): never the metadata of one save with the chunks of another, never
\* the content of a file that is partly written.
C13_AtomicSave ==
    (last.op = "get_project_cache" /\ last.pc = "done")
        => \E k \in DOMAIN bg :
              /\ last.meta = bg[k].meta
              /\ last.chunks = IF bg[k].meta = NONE THEN <<>> ELSE bg[k].chunks

\* ========================================================================
\* Claims on the fault specification
\* ========================================================================

\* A background ingestion with chunks has just ended after a write to one of
\* the two stores failed.
C15_Case(k) ==
    /\ "fault" \in DOMAIN bg[k]
    /\ bg[k].fault \in {"embedding_store", "content_store"}
    /\ ~bg[k].empty
    /\ last.op \in {"publish", "except_done"}
    /\ last.key = k

\* C15: when a write to the content store or to the embedding store fails
\* during a background ingestion, the ingestion still ends with a session
\* entry that is ready and holds the merged chunk list and the retriever.
C15_ReadyDespiteWriteFailure ==
    \A k \in DOMAIN bg :
        C15_Case(k) =>
            /\ "error" \notin DOMAIN pdf_cache[k]
            /\ "retriever" \in DOMAIN pdf_cache[k]
            /\ pdf_cache[k].retriever = bg[k].retriever
            /\ pdf_cache[k].chunks = bg[k].all_chunks_ordered
            /\ pdf_cache[k].processing = FALSE

\* A background ingestion in which the extractor raised on some files has
\* just replaced the session entry.
C16_Case(k) ==
    /\ "broken" \in DOMAIN bg[k]
    /\ bg[k].pc = "done"
    /\ last.op = "publish"
    /\ last.key = k

\* C16: when the extraction of one file fails, that file's progress ends with
\* status "error", the chunks of the other files of the batch are in the
\* session entry, and the session entry is not an error entry.
C16_FailedFileIsolated ==
    \A k \in DOMAIN bg :
        C16_Case(k) =>
            /\ \A n \in bg[k].broken : pdf_cache[k].file_progress[n] = "error"
            /\ \A i \in DOMAIN bg[k].pdf_files :
                   bg[k].pdf_files[i] \notin bg[k].broken
                       => Range(process_single_pdf(bg[k].pdf_files[i], bg[k].temp))
                              \subseteq Range(pdf_cache[k].chunks)
            /\ "error" \notin DOMAIN pdf_cache[k]

\* The same without the demand on the failed file's status.
C16_SiblingsKept ==
    \A k \in DOMAIN bg :
        C16_Case(k) =>
            /\ \A i \in DOMAIN bg[k].pdf_files :
                   bg[k].pdf_files[i] \notin bg[k].broken
                       => Range(process_single_pdf(bg[k].pdf_files[i], bg[k].temp))
                              \subseteq Range(pdf_cache[k].chunks)
            /\ "error" \notin DOMAIN pdf_cache[k]

\* ========================================================================
\* Claims on the progress specification
\* ========================================================================

\* The values of a file's progress between the unit's updates of it.
C17_Whole(p) ==
    \/ p = [progress |-> 0, status |-> "pending"]
    \/ p = [progress |-> 25, status |-> "processing"]
    \/ p = [progress |-> 100, status |-> "completed"]

\* C17: a status request concurrent with the background unit never gets an
\* entry in which only some of the fields of one of the unit's updates have
\* been applied.
C17_NoPartialUpdate ==
    (last.op = "get_cache_status" /\ "file_progress" \in DOMAIN last.response)
        => \A n \in DOMAIN last.response.file_progress :
              C17_Whole(last.response.file_progress[n])

\* ========================================================================
\* Claims on the thread specification
\* ========================================================================

\* No call met a RuntimeError because the map changed under its iteration.
C18_NoCallFails == \A t \in DOMAIN bg : ~bg[t].raised

\* What a file or the map holds: each entry's hash and response, in order.
C18_Content(data) ==
    [i \in DOMAIN data |-> [key |-> data[i].key, response |-> data[i].entry.response]]

\* When every call has returned and one of them was a set, the file parses
\* and holds the entries of the map.
C18_FileWhole ==
    (/\ \A t \in DOMAIN bg : bg[t].pc = "done"
     /\ \E t \in DOMAIN bg : bg[t].call.op = "set")
        => /\ cache_file /= <<>>
           /\ cache_file[Len(cache_file)] = EndOfFile
           /\ \A i \in 1..(Len(cache_file) - 1) : cache_file[i] /= EndOfFile
           /\ C18_Content(SubSeq(cache_file, 1, Len(cache_file) - 1)) = C18_Content(cache_data)

\* C18: under every interleaving of concurrent set calls, and of a set with
\* a get scan, no call fails because the entry map changed under it, and the
\* cache file is not left partly written: it parses and holds a complete
\* snapshot of the entries.
C18_Serialized == C18_NoCallFails /\ C18_FileWhole

\* ------------------------------------------------------------------------
\* Claims about removal of what is not there                       (Spec)
\* ------------------------------------------------------------------------

\* The project has no metadata, or its file list has no entry named f.
C21_Missing(f) ==
    \/ load_project_meta(meta) = NONE
    \/ \A i \in DOMAIN FilesOf(The(load_project_meta(meta))) :
          Get(FilesOf(The(load_project_meta(meta)))[i], "name") /= Some(f)

\* C21: remove_pdf on a project that does not exist, or for a file name that
\* is not in the project's file list, answers 404 and leaves the content
\* store (meta.json, chunks.json), the embedding store and the session cache
\* as they were.
C21_RemoveNotFound ==
    [][\A f \in Names :
          (C21_Missing(f) /\ last'.op = "remove_pdf" /\ last'.filename = f)
          => /\ last'.status = 404
             /\ UNCHANGED <<meta, chunks, emb, pdf_cache, bg>>]_vars

\* A removal was refused on a project that has files, chunks and vectors.
C21_Witness ==
    /\ last.op = "remove_pdf"
    /\ last.status = 404
    /\ meta /= NONE
    /\ chunks /= <<>>
    /\ emb /= NONE

\* ========================================================================
\* Claims on the chunker specification
\* ========================================================================

\* The call under way is one of extract_chunks_with_headings.
C22_Extracted == bg /= <<>> /\ bg[1].fn = "extract_chunks_with_headings"

\* C22 as stated: for every document whose extracted text is non-empty, and
\* every list of headings, extract_chunks_with_headings returns at least one
\* chunk.
C22_NonEmptyYieldsChunk ==
    (C22_Extracted /\ bg[1].all_text /= <<>>) => bg[1].result /= <<>>

\* C22 as amended: for every document whose extracted text has a character
\* that is not white space, and every list of headings,
\* extract_chunks_with_headings returns at least one chunk.
C22_InkedYieldsChunk ==
    (C22_Extracted /\ strip(bg[1].all_text) /= <<>>) => bg[1].result /= <<>>

\* Headings were supplied, none is a line of the text, and the text came out
\* as a chunk.
C22_Witness ==
    /\ C22_Extracted
    /\ bg[1].headings = <<<<"G">>>>
    /\ strip(bg[1].all_text) /= <<>>
    /\ Len(bg[1].pages) = 2
    /\ Len(bg[1].result) = 1

\* No heading was supplied, or none matches the body.
C23_Case ==
    /\ C22_Extracted
    /\ \/ bg[1].headings = <<>>
       \/ MatchPositions(bg[1].all_text, bg[1].headings) = {}

\* The result is one chunk, of the whole-document label, on page 1, with the
\* given content.
C23_OneChunk(result, content) ==
    /\ Len(result) = 1
    /\ result[1].heading = WholeDocument
    /\ result[1].page_number = 1
    /\ result[1].content = content

\* C23 as stated: when no headings are supplied, or none of the supplied
\* headings matches the body, a document with non-empty text yields exactly
\* one chunk, whose heading is the whole-document label, whose page number is
\* 1 and whose content is the whole document text.
C23_WholeDocumentChunk ==
    (C23_Case /\ bg[1].all_text /= <<>>) => C23_OneChunk(bg[1].result, bg[1].all_text)

\* C23 as amended: when no headings are supplied, or none of the supplied
\* headings matches the body, a document whose text has a character that is
\* not white space yields exactly one chunk, whose heading is the
\* whole-document label, whose page number is 1 and whose content is the
\* document text without its leading and trailing white space.
C23_StrippedDocumentChunk ==
    (C23_Case /\ strip(bg[1].all_text) /= <<>>)
    => C23_OneChunk(bg[1].result, strip(bg[1].all_text))

\* A heading was supplied that occurs in the text but not as a line of it,
\* and the text has white space around it.
C23_Witness ==
    /\ C23_Case
    /\ bg[1].headings = <<<<"H">>>>
    /\ Contains(bg[1].all_text, <<"H">>)
    /\ strip(bg[1].all_text) /= <<>>
    /\ strip(bg[1].all_text) /= bg[1].all_text
    /\ Len(bg[1].result) = 1

\* A call of split_text_sliding_window that went into the loop.
C24_Looped == bg /= <<>> /\ bg[1].fn = "split_text_sliding_window" /\ bg[1].spans /= <<>>

\* The loop of the call is over.
C24_Over == C24_Looped /\ bg[1].pc \in {"l129", "done"}

\* C24: split_text_sliding_window covers its input without gaps.  For every
\* text longer than L the first window starts at the start of the text, each
\* window starts at or before the previous window's split point, and the
\* last window ends at the end of the text; with a text of LongLen (2400)
\* characters, L = 1000 and O = 200 there are at least 3 windows and each
\* window starts before the previous window's split point.
C24_NoGaps ==
    C24_Looped =>
        LET spans == bg[1].spans
        IN /\ spans[1][1] = 0
           /\ \A i \in 1..(Len(spans) - 1) : spans[i + 1][1] <= spans[i][2]
           /\ bg[1].pc = "while" => bg[1].start <= spans[Len(spans)][2]
           /\ C24_Over => spans[Len(spans)][2] >= Len(bg[1].text)
           /\ (C24_Over /\ Len(bg[1].text) = LongLen
               /\ bg[1].chunk_size = DefaultChunkSize /\ bg[1].overlap = DefaultOverlap)
              => /\ Len(spans) >= 3
                 /\ \A i \in 1..(Len(spans) - 1) : spans[i + 1][1] < spans[i][2]

\* A text of 2400 characters with sentence ends and blanks was cut into three
\* windows or more, all of them returned.
C24_Witness ==
    /\ C24_Looped
    /\ bg[1].pc = "done"
    /\ bg[1].text = Pattern(LongLen, 170, 140)
    /\ Len(bg[1].spans) >= 3
    /\ Len(bg[1].result) = Len(bg[1].spans)

\* C25: split_text_sliding_window terminates for every text, every chunk
\* length L >= 1 and every overlap O >= 0 (O >= L included).  Each turn of
\* the loop that is not the last moves the window start forward by at least
\* one character, to split_point - O whenever that is beyond the old start;
\* the last turn leaves the loop; so a text of n characters is cut in at most
\* n turns.
C25_Terminates ==
    (C24_Looped /\ last.op = "turn") =>
        /\ ~last.final => bg[1].start >= last.start + 1
        /\ (~last.final /\ last.split_point - bg[1].overlap > last.start)
           => bg[1].start = last.split_point - bg[1].overlap
        /\ last.final => bg[1].pc = "l129"
        /\ Len(bg[1].spans) <= Len(bg[1].text)

\* A call with an overlap as large as the window or larger came to its end
\* after three turns or more.
C25_Witness ==
    /\ C24_Looped
    /\ bg[1].pc = "done"
    /\ bg[1].overlap >= bg[1].chunk_size
    /\ Len(bg[1].spans) >= 3

\* ========================================================================
\* Claims on the status query and the index build           (FaultSpec)
\* ========================================================================

\* The entry of token k holds a retriever that was built.
C26_Built(k) == "retriever" \in DOMAIN pdf_cache[k] /\ pdf_cache[k].retriever /= NONE

\* The background unit of token k is between its first and its last write to
\* the entry.
C26_Processing(k) == bg[k].pc \in {"extracted", "merged", "persisted", "except"}

\* The ingestion or the index build of token k has failed and the unit is over.
C26_Failed(k) ==
    \/ bg[k].pc = "failed"
    \/ bg[k].pc = "done" /\ "fault" \in DOMAIN bg[k] /\ bg[k].fault = "index_build"
    \/ "error" \in DOMAIN pdf_cache[k]

\* The answer names an error: as a field of its own or as the status of a file.
C26_ErrorReported(answer) ==
    \/ "error" \in DOMAIN answer
    \/ "index_error" \in DOMAIN answer
    \/ /\ "file_progress" \in DOMAIN answer
       /\ \E n \in DOMAIN answer.file_progress : answer.file_progress[n] = "error"

\* C26: the status query for a session token reports the session's actual
\* state: ready exactly when the entry holds a built retriever, the per-file
\* progress while the background unit is processing, and the error when the
\* ingestion or the index build for that token failed.
C26_StatusTruthful ==
    \A k \in DOMAIN pdf_cache :
        /\ get_cache_status(pdf_cache[k]).ready <=> C26_Built(k)
        /\ C26_Processing(k) => "file_progress" \in DOMAIN get_cache_status(pdf_cache[k])
        /\ C26_Failed(k) => C26_ErrorReported(get_cache_status(pdf_cache[k]))

\* The index build of token k failed and nothing else did.
C29_Case(k) == "fault" \in DOMAIN bg[k] /\ bg[k].fault = "index_build"

\* C29: if building the index fails during a background ingestion, the
\* project's file list and chunk list are still persisted, and the session
\* entry is still published, with the index-error flag set, no retriever, the
\* stored chunks followed by the new ones, and the stored files followed by
\* the new ones.
C29_PublishedDegraded ==
    \A k \in DOMAIN bg :
        C29_Case(k) =>
            /\ bg[k].pc \in {"merged", "persisted", "done"}
            /\ (last.op = "persist" /\ last.key = k)
               => /\ FilesOf(The(meta)) = FilesOf(bg[k].existing_meta) \o bg[k].new_files_meta
                  /\ chunks = bg[k].existing_chunks \o bg[k].new_chunks
            /\ bg[k].pc = "done"
               => /\ pdf_cache[k].index_error = TRUE
                  /\ pdf_cache[k].retriever = NONE
                  /\ pdf_cache[k].chunks = bg[k].existing_chunks \o bg[k].new_chunks
                  /\ pdf_cache[k].pdf_files =
                        FileNames(FilesOf(bg[k].existing_meta) \o bg[k].new_files_meta)
                  /\ pdf_cache[k].processing = FALSE

\* An ingestion that added chunks to stored ones was published after its
\* index build had failed.
C29_Witness ==
    \E k \in DOMAIN bg :
        /\ C29_Case(k)
        /\ bg[k].pc = "done"
        /\ bg[k].existing_chunks /= <<>>
        /\ bg[k].new_chunks /= <<>>
        /\ pdf_cache[k].index_error = TRUE
        /\ chunks = pdf_cache[k].chunks

\* ========================================================================
\* Claims on the lookup specification
\* ========================================================================

\* The score of the entry at position i of the dict a lookup was made on.
C27_Score(i) ==
    BlendedSimilarity(embedding_model, ret.gets[1].prompt, ret.gets[1].context,
                      ret.data[i].entry)

\* The entries at or above the threshold.
C27_Eligible == {i \in DOMAIN ret.data : C27_Score(i) >= similarity_threshold}

\* The lookup had no exact hash match.
C27_Case ==
    /\ ret.op = "get"
    /\ \A i \in DOMAIN ret.data : ret.data[i].key /= _hash_prompt(ret.gets[1].prompt)

\* C27: on a lookup with no exact hash match and a similarity function
\* available, get returns the entry with the highest blended score among the
\* entries whose score is at or above the similarity threshold, and a miss
\* when no entry reaches the threshold; with no similarity function
\* available every prompt that is not stored is a miss.
C27_BestAboveThreshold ==
    C27_Case =>
        IF embedding_model /\ C27_Eligible /= {}
        THEN /\ ret.gets[1].result /= NONE
             /\ \E i \in C27_Eligible :
                   /\ \A j \in C27_Eligible : C27_Score(j) <= C27_Score(i)
                   /\ The(ret.gets[1].result).prompt = ret.data[i].entry.prompt
                   /\ The(ret.gets[1].result).response = ret.data[i].entry.response
                   /\ The(ret.gets[1].result).similarity_score = C27_Score(i)
                   /\ The(ret.gets[1].result).cache_hit_type = "similar"
        ELSE ret.gets[1].result = NONE

\* Two stored entries are at or above the threshold, the first with the lower
\* score, and the lookup returned the second.
C27_Witness ==
    /\ C27_Case
    /\ embedding_model
    /\ similarity_threshold = DefaultThreshold
    /\ C27_Eligible = {1, 2}
    /\ C27_Score(1) < C27_Score(2)
    /\ ret.gets[1].result /= NONE
    /\ The(ret.gets[1].result).prompt = ret.data[2].entry.prompt

\* ========================================================================
\* Claims on the context similarity                          (CacheSpec)
\* ========================================================================

\* |A n B| / |A u B| of two hash collections, as a score.
C28_Jaccard(hashes1, hashes2) ==
    (One * Cardinality(Range(hashes1) \cap Range(hashes2)))
        \div Cardinality(Range(hashes1) \cup Range(hashes2))

\* The share of the keys of both contexts whose values are equal, as a score.
C28_SharedEqual(context1, context2) ==
    (One * Cardinality({key \in DOMAIN context1 \cap DOMAIN context2 :
                           context1[key] = context2[key]}))
        \div Cardinality(DOMAIN context1 \cap DOMAIN context2)

\* What the claim says of one pair of contexts, given the code's value.
C28_Holds(context1, context2, value) ==
    /\ 0 <= value /\ value <= One
    /\ (/\ ProjectId(context1) /= NONE
        /\ ProjectId(context2) /= NONE
        /\ ProjectId(context1) /= ProjectId(context2)) => value = 0
    /\ (/\ ProjectId(context1) = ProjectId(context2)
        /\ DOMAIN context1 = DOMAIN context2
        /\ "chunk_hashes" \in DOMAIN context1
        /\ context1.chunk_hashes /= <<>> /\ context2.chunk_hashes /= <<>>)
           => value = C28_Jaccard(context1.chunk_hashes, context2.chunk_hashes)
    /\ (/\ ProjectId(context1) = ProjectId(context2)
        /\ DOMAIN context1 = DOMAIN context2
        /\ "chunk_hashes" \notin DOMAIN context1)
           => value = C28_SharedEqual(context1, context2)

\* Lookup i of the last operation went through the similarity scan.
C28_Scanned(i) ==
    /\ embedding_model
    /\ \/ ret.gets[i].result = NONE
       \/ The(ret.gets[i].result).cache_hit_type = "similar"

\* C28: the context similarity that get blends into the score of a stored
\* entry is 0 if the two contexts' project identifiers differ; otherwise,
\* if both contexts carry a chunk-hash collection, the Jaccard index of the
\* two hash sets; otherwise the fraction of the keys present in both
\* contexts whose values are equal; and it lies in [0, 1].  Stated for every
\* scanning lookup of the last operation against every stored entry with a
\* context.
C28_ContextSimilarity ==
    \A i \in DOMAIN ret.gets : \A j \in DOMAIN cache_data :
        (/\ C28_Scanned(i)
         /\ Truthy(ret.gets[i].context)
         /\ Truthy(cache_data[j].entry.context))
        => C28_Holds(ret.gets[i].context, cache_data[j].entry.context,
                     _compute_context_similarity(ret.gets[i].context,
                                                 cache_data[j].entry.context))

\* The same for the contexts that carry their project under project_name.
C28_NamedContexts ==
    \A i \in DOMAIN ret.gets : \A j \in DOMAIN cache_data :
        (/\ C28_Scanned(i)
         /\ "project_name" \in DOMAIN ret.gets[i].context
         /\ "project_name" \in DOMAIN cache_data[j].entry.context)
        => C28_Holds(ret.gets[i].context, cache_data[j].entry.context,
                     _compute_context_similarity(ret.gets[i].context,
                                                 cache_data[j].entry.context))

\* ========================================================================
\* Claims on the life of a session entry                      (FaultSpec)
\* ========================================================================

\* C30: a session entry is never removed: a token that is in the session map
\* stays in it, and once the status query answers ready = true for a token,
\* it answers ready = true with the same chunk count from then on.
C30_NeverEvicted ==
    [][/\ DOMAIN pdf_cache \subseteq DOMAIN pdf_cache'
       /\ \A k \in DOMAIN pdf_cache :
             get_cache_status(pdf_cache[k]).ready
             => /\ get_cache_status(pdf_cache'[k]).ready
                /\ get_cache_status(pdf_cache'[k]).chunk_count
                     = get_cache_status(pdf_cache[k]).chunk_count]_vars

\* The first token was ready before the second request added chunks to the
\* project, and both are ready now, each with its own chunk count.
C30_Witness ==
    /\ Len(pdf_cache) = 2
    /\ bg[1].pc = "done"
    /\ bg[2].pc = "done"
    /\ get_cache_status(pdf_cache[1]).ready
    /\ get_cache_status(pdf_cache[2]).ready
    /\ get_cache_status(pdf_cache[1]).chunk_count
         < get_cache_status(pdf_cache[2]).chunk_count

\* ========================================================================
\* Claims on ageing out prompt-cache entries                     (AgeSpec)
\* ========================================================================

\* C31: remove_old_entries(days) deletes exactly the entries created more than
\* `days` days ago, keeps every other entry, persists the result when anything
\* was removed, and returns the number of entries removed.
C31_RemovesExactlyOld ==
    ret.op = "remove_old_entries"
    => LET kept == SelectSeq(ret.before,
                             LAMBDA e : e.entry.created_at >= ret.cutoff_date)
       IN  /\ ~ret.raised
           /\ cache_data = kept
           /\ ret.removed_count = Len(ret.before) - Len(kept)
           /\ ret.removed_count > 0 => cache_file = json_dump(kept)

\* ========================================================================
\* Claims on export and import of a project                   (BundleSpec)
\* ========================================================================

\* The record an exported "embeddings" object stands for.
C32_Record(embeddings) ==
    IF embeddings = NONE THEN NONE
    ELSE Some(save_embeddings(The(embeddings).chunk_ids, The(embeddings).embeddings,
                              The(embeddings).model_name))

\* The persisted state is the one the bundle held by the client was made of.
C32_Restored ==
    /\ load_project_meta(meta) = Some(ret.bundle.meta)
    /\ load_project_chunks(chunks) = ret.bundle.chunks
    /\ load_embeddings(emb) = C32_Record(ret.bundle.embeddings)
    /\ \A i \in DOMAIN ret.bundle.prompt_cache :
          LET e == ret.bundle.prompt_cache[i]
              at == IndexOf(cache_data, e.hash)
          IN  /\ at /= 0
              /\ cache_data[at].entry.prompt = e.prompt
              /\ cache_data[at].entry.response = e.response
              /\ cache_data[at].entry.context = e.context

\* C32: importing an exported bundle under the same name restores the state
\* that was exported: the same metadata and file list, the same chunk list,
\* the same EmbeddingRecord, and every exported prompt-cache entry with its
\* prompt, response and context.
C32_RoundTrip ==
    [][(nreq' = nreq + 1 /\ last'.op = "import_project_cache") => C32_Restored']_vars

\* ========================================================================
\* Claims on what an ingestion keeps and records               (FaultSpec)
\* ========================================================================

\* C33: ingestion never loses stored chunks: in the state a background
\* ingestion persists, every chunk that was in the Content Store when its
\* request was accepted is in the persisted chunk list, also when the stored
\* EmbeddingRecord covers only part of the stored chunks.
C33_NoChunkLost ==
    last.op = "persist"
    => \A i \in DOMAIN bg[last.key].existing_chunks :
          \E j \in DOMAIN chunks : chunks[j] = bg[last.key].existing_chunks[i]

\* C34: a file is recorded in the project's file list only if its extraction
\* succeeded: every file a background ingestion adds to the persisted file
\* list has at least one chunk among the chunks that ingestion extracted.
C34_RecordedOnlyIfExtracted ==
    last.op = "persist"
    => \A i \in DOMAIN bg[last.key].new_files_meta :
          /\ bg[last.key].new_files_meta[i] \in Range(StoredFiles)
          => \E j \in DOMAIN bg[last.key].new_chunks :
                bg[last.key].new_chunks[j].pdf_name = bg[last.key].new_files_meta[i].name

\* ========================================================================
\* Claims on chunk ids                                              (Spec)
\* ========================================================================

\* No content hash is stored twice and no batch held a file name twice.
C35_DistinctFiles ==
    /\ \A i, j \in DOMAIN StoredFiles :
          i /= j => StoredFiles[i].hash /= StoredFiles[j].hash
    /\ \A k \in DOMAIN bg :
          bg[k].pc /= "none"
          => \A i, j \in DOMAIN bg[k].pdf_files :
                i /= j => bg[k].pdf_files[i] /= bg[k].pdf_files[j]

\* C35: chunk ids are unique within the stored chunk list: chunks stored from
\* different files, or from different versions of a same-named file, never
\* share a chunk id.
C35_UniqueChunkIds ==
    C35_DistinctFiles
    => \A i, j \in DOMAIN chunks :
          i /= j => chunks[i].chunk_id /= chunks[j].chunk_id

\* ========================================================================
\* Claims on persisting before publishing                    (RestartSpec)
\* ========================================================================

\* The session of key k was produced by a background ingestion or a removal.
C36_Produced(k) == bg[k].pc /= "none" \/ "removed_file" \in DOMAIN pdf_cache[k]

\* Key k's request has written the Content Store: a background unit past its
\* save_project_state, or a removal or import (their entries carry a domain
\* and no "reused" mark).
C36_Wrote(k) ==
    \/ bg[k].pc \in {"persisted", "done"}
    \/ /\ bg[k].pc = "none"
       /\ "domain" \in DOMAIN pdf_cache[k]
       /\ "reused" \notin DOMAIN pdf_cache[k]

\* The Content Store holds the file list and the chunk list of session k.
C36_Stored(k) ==
    /\ load_project_chunks(chunks) = pdf_cache[k].chunks
    /\ FileNames(FilesOf(MetaOrDefault(load_project_meta(meta)))) = pdf_cache[k].pdf_files

\* No request other than k's has written the project since k was accepted: a
\* handler that writes within its own step and has a smaller key wrote before.
C36_NoLaterWriter(k) ==
    \A other \in DOMAIN pdf_cache \ {k} :
        ~C36_Wrote(other) \/ (other < k /\ bg[other].pc = "none")

\* C36: whenever the status query answers ready = true for a session produced
\* by a background ingestion or by remove_pdf, the project state was persisted
\* before: the unit is past its save, a removal's session is stored in the
\* step that creates it, and, no other request having written the project
\* since, the Content Store holds the session's file list and chunk list.
C36_PersistedBeforeReady ==
    \A k \in DOMAIN pdf_cache :
        (get_cache_status(pdf_cache[k]).ready /\ C36_Produced(k))
        => /\ bg[k].pc \in {"none", "done"}
           /\ (last.op = "remove_pdf" /\ last.status = 200 /\ last.key = k)
                 => C36_Stored(k)
           /\ C36_NoLaterWriter(k) => C36_Stored(k)

\* A background session over a project that had chunks is ready, and another
\* session was opened without writing the project.
C36_Witness ==
    /\ Len(pdf_cache) = 2
    /\ \E k \in DOMAIN pdf_cache :
          /\ bg[k].pc = "done"
          /\ get_cache_status(pdf_cache[k]).ready
          /\ Len(pdf_cache[k].chunks) > 1
          /\ \A other \in DOMAIN pdf_cache \ {k} : ~C36_Wrote(other)

\* ========================================================================
\* Claims on what a lookup leaves behind                        (ScanSpec)
\* ========================================================================

\* C37: PromptCache.get is read-only with respect to the stored entries: after
\* a hit or a miss the map holds the entries it held before, field by field,
\* and the annotations of a hit describe this lookup only: an exact hit does
\* not carry the similarity score of an earlier lookup.
C37_GetReadOnly ==
    ret.op = "get"
    => /\ cache_data = ret.data
       /\ \A i \in DOMAIN ret.gets :
             (/\ ret.gets[i].result /= NONE
              /\ The(ret.gets[i].result).cache_hit_type = "exact")
             => "similarity_score" \notin DOMAIN The(ret.gets[i].result)

\* ========================================================================
\* Claims on re-submitted batches                            (RestartSpec)
\* ========================================================================

\* The step is a cache_pdfs whose files all have a content hash the project
\* already lists, on a project with stored chunks.
C38_KnownBatch ==
    /\ nreq' = nreq + 1
    /\ last'.op = "cache_pdfs"
    /\ \A i \in DOMAIN last'.files :
          hash_bytes(last'.files[i].content)
              \in FileHashes(FilesOf(MetaOrDefault(load_project_meta(meta))))
    /\ load_project_chunks(chunks) /= <<>>

C39_HasRetriever ==
    /\ "retriever" \in DOMAIN pdf_cache[last.key]
    /\ pdf_cache[last.key].retriever /= NONE

\* The answer of the last query fits the entry it was made on.
C39_Answer ==
    /\ last.key \notin DOMAIN pdf_cache => last.answer.status = 404
    /\ (last.key \in DOMAIN pdf_cache /\ ~C39_HasRetriever) => last.answer.status = 500
    /\ last.answer.status = 200
          => /\ bg[last.key].pc \in {"none", "done"}
             /\ last.answer.input_documents = pdf_cache[last.key].pdf_files
             /\ last.answer.extracted_sections
                   = Min(last.k, Len(pdf_cache[last.key].chunks))

C40_Below(dir) ==
    /\ Len(dir) > Len(BASE_DATA_DIR)
    /\ SubSeq(dir, 1, Len(BASE_DATA_DIR)) = BASE_DATA_DIR

\* C40: for every project name a client supplies, the sanitized name is not
\* empty, not "." and not "..", holds no path separator, and every directory
\* the operation reads or writes is a strict descendant of the data directory.
C40_InsideDataDir ==
    ret.op \in {"save_project_state", "load_project_meta"}
       => /\ ret.safe_name \notin {<<>>, <<".">>, <<".", ".">>}
          /\ \A i \in 1..Len(ret.safe_name) : ret.safe_name[i] \notin Separators
          /\ \A dir \in ret.dirs : C40_Below(dir)

====
